---- MODULE Spec2Model ----
(***************************************************************************)
(* Crawl-and-cache engine of BucketBoss: the cache layer of                *)
(* BucketBossApp (app.py), the walkers and the parallel downloader of      *)
(* parallel.py, the background cache crawl of cli.py and the commands that *)
(* touch the cache (put, stats, exit).                                     *)
(*                                                                         *)
(* Paths are sequences of segments: the prefix "a/b/" is <<"a","b">>, the  *)
(* root prefix "" is <<>>, and the key "a/b/f" is <<"a","b","f">>.         *)
(***************************************************************************)
EXTENDS Integers, Sequences, FiniteSets, TLC

\* ---------------------------------------------------------------- bounds
MaxItems == 3
MaxWorkers == 2
MaxDepth == 3
MaxWalks == 2
MaxTicks == 2
MaxCommands == 2
MaxOps == 3
MaxFiles == 1
MaxSegments == 3
MaxCalls == 2

\* Python's None for an integer argument.
None == -1

\* ------------------------------------------------------------- utilities
Range(s) == {s[i] : i \in 1..Len(s)}

Front(s) == SubSeq(s, 1, Len(s) - 1)

Last(s) == s[Len(s)]

RECURSIVE SeqSum(_)
SeqSum(s) == IF s = <<>> THEN 0 ELSE Head(s) + SeqSum(Tail(s))

Max(a, b) == IF a >= b THEN a ELSE b

\* ------------------------------------------------------------- variables
VARIABLES
    \* parallel_download: arguments
    file_keys, dl_workers, max_size, flat, dl_raises,
    \* parallel_download: locals of the calling thread
    dl_pc, to_download, downloaded, skipped, errors, dl_next,
    future_to_key, dl_yielded, dl_progress,
    \* parallel_download: the executor and its worker threads
    dl_queue, dl_running, dl_outcome,
    \* effects of _download_one outside the process
    local_dirs, dl_calls,
    \* the remote store (the set of object keys), the prefixes whose listing
    \* fails, the cache of BucketBossApp and the clock
    remote, failing, cache, now, ticks,
    \* parallel_walk / _sequential_walk: arguments
    w_root, w_max_depth, w_workers,
    \* parallel_walk / _sequential_walk: locals of the calling thread
    w_pc, all_files, all_dirs, total_size, current_level, next_level, w_next,
    future_to_prefix, w_yielded, w_stack,
    \* parallel_walk: every future the executor was given, with its state
    futures,
    \* history: the list_objects calls of the running walk, and the results
    \* of the walks that returned
    w_listed, w_runs,
    \* background_cache_crawl: arguments, status_dict and locals
    c_max_depth, c_workers, crawl_status, c_pc, c_level, c_next_level,
    c_idx, c_ftp, c_yielded,
    \* background_cache_crawl: every future its executor was given
    c_futures,
    \* the shell's thread: the running command and its argument, the number
    \* of commands entered
    m_pc, m_arg, m_cmds,
    \* the loop over cache.items() of stats and exit: the size of the dict
    \* when the loop started, the items yielded and what was read
    it_used, it_seen, it_observed, it_status,
    \* history: the cache when the loop started, the keys whose put has
    \* finished, the listings the remote store has answered, and the last
    \* record written for each prefix
    it_start, put_done, listings, last_write,
    \* a shell session on one thread: the provider class, the cache_ttl of
    \* the loaded configuration, the number of commands entered
    provider, cache_ttl, a_pc, a_ops,
    \* history: the last command of the session with the cache and the
    \* clock it started from
    a_last,
    \* persistence: the cache file of the bucket, the position of the process
    \* (running, stopped, loading, started), the entries _load_cache has
    \* still to read
    disk, p_pc, p_todo,
    \* history: whether _save_cache wrote the file, and the cache it was
    \* called with
    p_saved,
    \* resolve_path: the arguments of one call (strings, as sequences of
    \* characters), the position of the call and the value returned
    current_prefix, input_path, is_directory, r_pc, r_result,
    \* the provider class whose resolve_path is called, and the number of
    \* calls so far
    r_provider, r_calls

dlVars == <<file_keys, dl_workers, max_size, flat, dl_raises,
            dl_pc, to_download, downloaded, skipped, errors, dl_next,
            future_to_key, dl_yielded, dl_progress,
            dl_queue, dl_running, dl_outcome, local_dirs, dl_calls>>

worldVars == <<remote, failing, cache, now, ticks>>

walkVars == <<w_root, w_max_depth, w_workers, w_pc, all_files, all_dirs,
              total_size, current_level, next_level, w_next,
              future_to_prefix, w_yielded, w_stack, futures, w_listed,
              w_runs>>

crawlVars == <<c_max_depth, c_workers, crawl_status, c_pc, c_level,
               c_next_level, c_idx, c_ftp, c_yielded, c_futures>>

mainVars == <<m_pc, m_arg, m_cmds, it_used, it_seen, it_observed, it_status,
              it_start, put_done, listings, last_write>>

appVars == <<provider, cache_ttl, a_pc, a_ops, a_last>>

\* the scenarios that run on one thread and share nothing with the others
persistVars == <<disk, p_pc, p_todo, p_saved>>

pathVars == <<current_prefix, input_path, is_directory, r_pc, r_result,
              r_provider, r_calls>>

soloVars == <<appVars, persistVars, pathVars>>

vars == <<dlVars, worldVars, walkVars, crawlVars, mainVars, soloVars>>

\* what parallel_download leaves alone, what a walk leaves alone, and what
\* the crawl thread leaves alone when it touches neither cache nor history
nonDlVars == <<worldVars, walkVars, crawlVars, mainVars, soloVars>>

nonWalkVars == <<dlVars, crawlVars, mainVars, soloVars>>

nonCrawlVars == <<dlVars, worldVars, walkVars, mainVars, soloVars>>

\* ================================================================ pool
\* ThreadPoolExecutor(max_workers=workers): a queued task starts only while
\* fewer than max_workers tasks are running.
PoolCanStart_unbounded(running, workers) == TRUE

PoolCanStart(running, workers) == Cardinality(running) < workers

\* ========================================================== remote store
\* Cache time-to-live in seconds (app.py: CACHE_TTL_SECONDS = 6 * 3600)
CACHE_TTL_SECONDS == 6 * 3600

\* Names in the order sort() gives them.
NameOrder == <<"a", "b", "c", "g", "n", "r", "x", "y", "z">>

\* obj['Size'] of an object, by its file name
FileSize(name) ==
    CASE name = "r" -> 100
      [] name = "x" -> 10
      [] name = "y" -> 20
      [] name = "z" -> 5
      [] OTHER      -> 7

\* The buckets the walks are run on, as sets of object keys.
Trees == {
    {<<"r">>, <<"a", "x">>, <<"b", "y">>},
    {<<"r">>, <<"a", "x">>, <<"a", "b", "y">>, <<"b", "y">>},
    {<<"a", "x">>, <<"a", "a", "y">>, <<"a", "a", "a", "z">>},
    {<<"r">>, <<"a", "x">>, <<"b", "y">>, <<"c", "z">>},
    {<<"r">>, <<"x">>} }

IsPrefixOf(p, k) == Len(p) <= Len(k) /\ SubSeq(k, 1, Len(p)) = p

\* every prefix ("directory") the keys of a bucket give rise to
PrefixesOf(keys) ==
    UNION {{SubSeq(k, 1, n) : n \in 0..Len(k) - 1} : k \in keys}

\* CommonPrefixes of a delimiter listing of prefix p, as directory names
RemoteDirs(keys, p) ==
    {k[Len(p) + 1] : k \in {k \in keys : IsPrefixOf(p, k) /\ Len(k) > Len(p) + 1}}

\* Contents of a delimiter listing of prefix p, as file names
RemoteFiles(keys, p) ==
    {k[Len(p) + 1] : k \in {k \in keys : Len(k) = Len(p) + 1 /\ IsPrefixOf(p, k)}}

\* directories.sort() / files.sort(key=name)
SortNames(S) == SelectSeq(NameOrder, LAMBDA n : n \in S)

FileEntries(names) ==
    [i \in 1..Len(names) |-> [name |-> names[i], size |-> FileSize(names[i])]]

\* provider.list_objects(prefix) with limit=None: the complete listing
ProviderList(keys, p) ==
    [dirs  |-> SortNames(RemoteDirs(keys, p)),
     files |-> FileEntries(SortNames(RemoteFiles(keys, p)))]

\* ================================================ BucketBossApp.list_objects
\* entry and time.time() - entry[2] < CACHE_TTL_SECONDS
IsFresh_inclusive(c, p, t) ==
    p \in DOMAIN c /\ t - c[p].ts <= CACHE_TTL_SECONDS

IsFresh(c, p, t) == p \in DOMAIN c /\ t - c[p].ts < CACHE_TTL_SECONDS

\* self.cache[prefix] = (dirs, files, time.time())
StoreRecord_merge(c, p, dirs, files, t) ==
    (p :> [dirs |-> dirs,
           files |-> IF p \in DOMAIN c THEN c[p].files ELSE files,
           ts |-> t]) @@ c

StoreRecord(c, p, dirs, files, t) ==
    (p :> [dirs |-> dirs, files |-> files, ts |-> t]) @@ c

\* The part of list_objects after the cache miss: the provider call, the
\* store and the except branch.  Gives the result, whether the call raised,
\* and the cache afterwards.
FetchAndStore_noexcept(c, p, t, keys, fail) ==
    IF p \in fail
    THEN [dirs |-> <<>>, files |-> <<>>, raised |-> TRUE, cache |-> c]
    ELSE LET r == ProviderList(keys, p)
         IN [dirs |-> r.dirs, files |-> r.files, raised |-> FALSE,
             cache |-> StoreRecord(c, p, r.dirs, r.files, t)]

FetchAndStore(c, p, t, keys, fail) ==
    IF p \in fail
    THEN [dirs |-> <<>>, files |-> <<>>, raised |-> FALSE, cache |-> c]
    ELSE LET r == ProviderList(keys, p)
         IN [dirs |-> r.dirs, files |-> r.files, raised |-> FALSE,
             cache |-> StoreRecord(c, p, r.dirs, r.files, t)]

\* list_objects(prefix) run without interruption
AppListObjects(c, p, t, keys, fail) ==
    IF IsFresh(c, p, t)
    THEN [dirs |-> c[p].dirs, files |-> c[p].files, raised |-> FALSE,
          cache |-> c]
    ELSE FetchAndStore(c, p, t, keys, fail)

\* the steps in which the clock advances
TickStep == CACHE_TTL_SECONDS \div 2

WorldInit ==
    /\ remote \in Trees
    /\ failing \in {{}} \cup {{p} : p \in PrefixesOf(remote)}
    /\ cache = <<>>
    /\ now = 0
    /\ ticks = 0

\* the buckets the shell is started on
CrawlTrees == {
    {<<"r">>, <<"a", "x">>, <<"b", "y">>},
    {<<"a", "x">>, <<"a", "b", "y">>} }

ShellWorldInit ==
    /\ remote \in CrawlTrees
    /\ failing \in {{}} \cup {{p} : p \in {q \in PrefixesOf(remote) : Len(q) = 1}}
    /\ cache = <<>>
    /\ now = 0
    /\ ticks = 0

WorldIdle ==
    /\ remote = {} /\ failing = {} /\ cache = <<>> /\ now = 0 /\ ticks = 0

\* time passes
Tick ==
    /\ ticks < MaxTicks
    /\ ticks' = ticks + 1
    /\ now' = now + TickStep
    /\ UNCHANGED <<remote, failing, cache>>

\* ================================================================= walk
\* for f in files: all_files.append((prefix + f['name'], f))
WalkFiles(prefix, files) ==
    [i \in 1..Len(files) |-> <<prefix \o <<files[i].name>>, files[i]>>]

FilesSize(files) == SeqSum([i \in 1..Len(files) |-> files[i].size])

\* if depth < max_depth
CanExpand_inclusive(depth, max_depth) == depth <= max_depth

CanExpand_always(depth, max_depth) == TRUE

CanExpand(depth, max_depth) == depth < max_depth

\* parallel_walk, lines 86-88: every listed directory is recorded
ParDirs(prefix, dirs, depth, max_depth) ==
    [i \in 1..Len(dirs) |-> <<prefix \o <<dirs[i]>>, depth>>]

\* parallel_walk, lines 89-90: the entries queued for the next level
ParNext(prefix, dirs, depth, max_depth) ==
    IF CanExpand(depth, max_depth)
    THEN [i \in 1..Len(dirs) |-> <<prefix \o <<dirs[i]>>, depth + 1>>]
    ELSE <<>>

\* _sequential_walk, lines 115-116: the directories the frame will descend to
SeqTodo_unbounded(dirs, depth, max_depth) == dirs

SeqTodo(dirs, depth, max_depth) ==
    IF CanExpand(depth, max_depth) THEN dirs ELSE <<>>

\* as_completed(future_to_prefix) has yielded every future of the level
AsCompletedExhausted_first(ftp, yielded) == yielded # {}

AsCompletedExhausted(ftp, yielded) == yielded = ftp

Running(fs) == {i \in 1..Len(fs) : fs[i].state = "running"}

Queued(fs) == {i \in 1..Len(fs) : fs[i].state = "queued"}

WalkIdle ==
    /\ w_root = <<>> /\ w_max_depth = 0 /\ w_workers = 1
    /\ w_pc = "idle" /\ all_files = <<>> /\ all_dirs = <<>>
    /\ total_size = 0 /\ current_level = <<>> /\ next_level = <<>>
    /\ w_next = 1 /\ future_to_prefix = {} /\ w_yielded = {}
    /\ w_stack = <<>> /\ futures = <<>> /\ w_listed = {} /\ w_runs = {}

WalkInit ==
    /\ w_root \in {<<>>, <<"a">>}
    /\ w_max_depth \in 0..MaxDepth
    /\ w_workers = 1
    /\ w_pc = "start" /\ all_files = <<>> /\ all_dirs = <<>>
    /\ total_size = 0 /\ current_level = <<>> /\ next_level = <<>>
    /\ w_next = 1 /\ future_to_prefix = {} /\ w_yielded = {}
    /\ w_stack = <<>> /\ futures = <<>> /\ w_listed = {} /\ w_runs = {}

\* parallel_walk is called: lines 53-61, or lines 102-104 and 124
WalkStart(workers) ==
    /\ w_pc \in {"start", "returned"}
    /\ Cardinality(w_runs) < MaxWalks
    /\ \A r \in w_runs : r.workers # workers
    /\ w_workers' = workers
    /\ all_files' = <<>> /\ all_dirs' = <<>> /\ total_size' = 0
    /\ next_level' = <<>> /\ w_next' = 1
    /\ future_to_prefix' = {} /\ w_yielded' = {}
    /\ futures' = <<>> /\ w_listed' = {}
    /\ IF workers <= 1
       THEN /\ w_pc' = "seq"
            /\ w_stack' = <<[prefix |-> w_root, depth |-> 1,
                             todo |-> <<>>, listed |-> FALSE]>>
            /\ current_level' = <<>>
       ELSE /\ w_pc' = "submit"
            /\ w_stack' = <<>>
            /\ current_level' = <<<<w_root, 1>>>>
    /\ UNCHANGED <<w_root, w_max_depth, w_runs, worldVars>>
    /\ UNCHANGED nonWalkVars

\* executor.submit(app.list_objects, prefix), lines 68-70
WalkSubmit ==
    /\ w_pc = "submit"
    /\ futures' = Append(futures,
          [prefix |-> current_level[w_next][1],
           depth |-> current_level[w_next][2],
           state |-> "queued", dirs |-> <<>>, files |-> <<>>,
           raised |-> FALSE])
    /\ future_to_prefix' = future_to_prefix \cup {Len(futures) + 1}
    /\ w_next' = w_next + 1
    /\ w_pc' = IF w_next = Len(current_level) THEN "collect" ELSE "submit"
    /\ UNCHANGED <<w_root, w_max_depth, w_workers, all_files, all_dirs,
                   total_size, current_level, next_level, w_yielded,
                   w_stack, w_listed, w_runs, worldVars>>
    /\ UNCHANGED nonWalkVars

\* a pool thread takes the oldest queued future and runs app.list_objects up
\* to its remote call (app.py lines 191-200); a cache hit returns at once
WalkWorkerStart ==
    /\ Queued(futures) # {}
    /\ PoolCanStart(Running(futures), w_workers)
    /\ LET i == CHOOSE j \in Queued(futures) :
                   \A k \in Queued(futures) : j <= k
           p == futures[i].prefix
       IN /\ futures' = [futures EXCEPT ![i] =
                IF IsFresh(cache, p, now)
                THEN [@ EXCEPT !.state = "done", !.dirs = cache[p].dirs,
                               !.files = cache[p].files]
                ELSE [@ EXCEPT !.state = "running"]]
          /\ w_listed' = w_listed \cup {<<p, futures[i].depth>>}
    /\ UNCHANGED <<w_root, w_max_depth, w_workers, w_pc, all_files, all_dirs,
                   total_size, current_level, next_level, w_next,
                   future_to_prefix, w_yielded, w_stack, w_runs, worldVars>>
    /\ UNCHANGED nonWalkVars

\* the remote call of a running future returns or raises, and
\* app.list_objects finishes (app.py lines 200-209)
WalkWorkerFinish(i) ==
    /\ i \in Running(futures)
    /\ LET r == FetchAndStore(cache, futures[i].prefix, now, remote, failing)
       IN /\ futures' = [futures EXCEPT ![i] =
                [@ EXCEPT !.state = "done", !.dirs = r.dirs,
                          !.files = r.files, !.raised = r.raised]]
          /\ cache' = r.cache
    /\ UNCHANGED <<w_root, w_max_depth, w_workers, w_pc, all_files, all_dirs,
                   total_size, current_level, next_level, w_next,
                   future_to_prefix, w_yielded, w_stack, w_listed, w_runs,
                   remote, failing, now, ticks>>
    /\ UNCHANGED nonWalkVars

\* one iteration of "for future in as_completed(future_to_prefix)",
\* lines 72-93
WalkCollect(i) ==
    /\ w_pc = "collect"
    /\ i \in future_to_prefix \ w_yielded
    /\ futures[i].state = "done"
    /\ w_yielded' = w_yielded \cup {i}
    /\ LET f == futures[i]
       IN IF f.raised
          THEN UNCHANGED <<all_files, all_dirs, total_size, next_level>>
          ELSE /\ all_files' = all_files \o WalkFiles(f.prefix, f.files)
               /\ total_size' = total_size + FilesSize(f.files)
               /\ all_dirs' = all_dirs \o
                      ParDirs(f.prefix, f.dirs, f.depth, w_max_depth)
               /\ next_level' = next_level \o
                      ParNext(f.prefix, f.dirs, f.depth, w_max_depth)
    /\ UNCHANGED <<w_root, w_max_depth, w_workers, w_pc, current_level,
                   w_next, future_to_prefix, w_stack, futures, w_listed,
                   w_runs, worldVars>>
    /\ UNCHANGED nonWalkVars

\* the level is over: current_level = next_level and the test of the while
\* loop, lines 95 and 64-67
WalkLevelDone ==
    /\ w_pc = "collect"
    /\ AsCompletedExhausted(future_to_prefix, w_yielded)
    /\ current_level' = next_level
    /\ next_level' = <<>>
    /\ future_to_prefix' = {}
    /\ w_yielded' = {}
    /\ w_next' = 1
    /\ w_pc' = IF next_level = <<>> THEN "done" ELSE "submit"
    /\ UNCHANGED <<w_root, w_max_depth, w_workers, all_files, all_dirs,
                   total_size, w_stack, futures, w_listed, w_runs,
                   worldVars>>
    /\ UNCHANGED nonWalkVars

\* _walk(prefix, depth) lists its prefix and collects the files,
\* lines 108-116
SeqEnter ==
    /\ w_pc = "seq"
    /\ w_stack # <<>>
    /\ ~Last(w_stack).listed
    /\ LET top == Last(w_stack)
           r == AppListObjects(cache, top.prefix, now, remote, failing)
       IN /\ cache' = r.cache
          /\ w_listed' = w_listed \cup {<<top.prefix, top.depth>>}
          /\ IF r.raised
             THEN /\ w_pc' = "raised"
                  /\ UNCHANGED <<all_files, total_size, w_stack>>
             ELSE /\ w_pc' = "seq"
                  /\ all_files' = all_files \o WalkFiles(top.prefix, r.files)
                  /\ total_size' = total_size + FilesSize(r.files)
                  /\ w_stack' = [w_stack EXCEPT ![Len(w_stack)] =
                        [@ EXCEPT !.listed = TRUE,
                                  !.todo = SeqTodo(r.dirs, top.depth,
                                                   w_max_depth)]]
    /\ UNCHANGED <<w_root, w_max_depth, w_workers, all_dirs,
                   current_level, next_level, w_next, future_to_prefix,
                   w_yielded, futures, w_runs, remote, failing, now, ticks>>
    /\ UNCHANGED nonWalkVars

\* one iteration of "for d in dirs": the directory is recorded and _walk
\* recurses into it, lines 116-119
SeqDescend ==
    /\ w_pc = "seq"
    /\ w_stack # <<>>
    /\ Last(w_stack).listed
    /\ Last(w_stack).todo # <<>>
    /\ LET top == Last(w_stack)
           full_dir == top.prefix \o <<Head(top.todo)>>
       IN /\ all_dirs' = Append(all_dirs, <<full_dir, top.depth>>)
          /\ w_stack' = Append(
                [w_stack EXCEPT ![Len(w_stack)] =
                    [@ EXCEPT !.todo = Tail(top.todo)]],
                [prefix |-> full_dir, depth |-> top.depth + 1,
                 todo |-> <<>>, listed |-> FALSE])
    /\ UNCHANGED <<w_root, w_max_depth, w_workers, w_pc, all_files,
                   total_size, current_level, next_level, w_next,
                   future_to_prefix, w_yielded, futures, w_listed, w_runs,
                   worldVars>>
    /\ UNCHANGED nonWalkVars

\* _walk returns to its caller, lines 121-122
SeqLeave ==
    /\ w_pc = "seq"
    /\ w_stack # <<>>
    /\ Last(w_stack).listed
    /\ Last(w_stack).todo = <<>>
    /\ w_stack' = Front(w_stack)
    /\ w_pc' = IF Len(w_stack) = 1 THEN "done" ELSE "seq"
    /\ UNCHANGED <<w_root, w_max_depth, w_workers, all_files, all_dirs,
                   total_size, current_level, next_level, w_next,
                   future_to_prefix, w_yielded, futures, w_listed, w_runs,
                   worldVars>>
    /\ UNCHANGED nonWalkVars

\* return all_files, all_dirs, total_size (line 97 or line 125)
WalkReturn ==
    /\ w_pc = "done"
    /\ w_pc' = "returned"
    /\ w_runs' = w_runs \cup
          {[workers |-> w_workers,
            files |-> {all_files[i][1] : i \in 1..Len(all_files)},
            nfiles |-> Len(all_files),
            dirs |-> Range(all_dirs),
            size |-> total_size,
            listed |-> w_listed]}
    /\ UNCHANGED <<w_root, w_max_depth, w_workers, all_files, all_dirs,
                   total_size, current_level, next_level, w_next,
                   future_to_prefix, w_yielded, w_stack, futures, w_listed,
                   worldVars>>
    /\ UNCHANGED nonWalkVars

\* return all_files, all_dirs, total_size: what the caller of a walk gets
WalkResult ==
    [all_files |-> all_files, all_dirs |-> all_dirs,
     total_size |-> total_size]

\* time passes during and between walks
WalkTick ==
    /\ w_pc # "idle"
    /\ Tick
    /\ UNCHANGED <<soloVars, dlVars, walkVars, crawlVars, mainVars>>

NextWalk ==
    \/ \E w \in 1..MaxWorkers : WalkStart(w)
    \/ WalkSubmit
    \/ WalkWorkerStart
    \/ \E i \in 1..Len(futures) : WalkWorkerFinish(i)
    \/ \E i \in 1..Len(futures) : WalkCollect(i)
    \/ WalkLevelDone
    \/ SeqEnter
    \/ SeqDescend
    \/ SeqLeave
    \/ WalkReturn
    \/ WalkTick

\* The steps of a walk that its own threads take: the calling thread runs
\* on, a pool thread takes a queued call, and a list call that was made
\* returns or raises.
WalkStep ==
    \/ WalkSubmit
    \/ WalkWorkerStart
    \/ \E i \in 1..Len(futures) : WalkWorkerFinish(i)
    \/ \E i \in 1..Len(futures) : WalkCollect(i)
    \/ WalkLevelDone
    \/ SeqEnter
    \/ SeqDescend
    \/ SeqLeave
    \/ WalkReturn

\* ================================================ invalidate_cache_for_key
\* del self.cache[prefix]
Remove(c, p) == [q \in DOMAIN c \ {p} |-> c[q]]

\* key.rsplit('/', 1)[0] + '/', or '' for a key without '/'
ParentPrefix(key) == Front(key)

Invalidate_ancestors(c, key) ==
    [q \in {q \in DOMAIN c : ~IsPrefixOf(q, ParentPrefix(key))} |-> c[q]]

Invalidate(c, key) ==
    LET parent_prefix == ParentPrefix(key)
        c1 == IF parent_prefix \in DOMAIN c THEN Remove(c, parent_prefix)
              ELSE c
    IN IF parent_prefix = <<>> /\ <<>> \in DOMAIN c1
       THEN Remove(c1, <<>>)
       ELSE c1

\* ================================================= background_cache_crawl
\* lines 122-125 and 138-141: the entries queued for the next level (a
\* directory name is never empty here)
CrawlNext_leaf(prefix, dirs, depth, max_depth) == <<>>

CrawlNext(prefix, dirs, depth, max_depth) ==
    IF CanExpand(depth, max_depth)
    THEN [i \in 1..Len(dirs) |-> <<prefix \o <<dirs[i]>>, depth + 1>>]
    ELSE <<>>

\* the process has not exited
Alive == m_pc # "exited"

\* lines 135-136: status_dict after the crawl stored the listing of a
\* prefix at this depth
CrawlStored_uncounted(status_dict, depth) ==
    [status_dict EXCEPT !.depth = Max(@, depth)]

CrawlStored(status_dict, depth) ==
    [status_dict EXCEPT !.cached_prefixes = @ + 1, !.depth = Max(@, depth)]

CrawlIdle ==
    /\ c_max_depth = 0 /\ c_workers = 1
    /\ crawl_status = [status |-> "pending", depth |-> 0,
                       cached_prefixes |-> 0]
    /\ c_pc = "idle" /\ c_level = <<>> /\ c_next_level = <<>> /\ c_idx = 1
    /\ c_futures = <<>> /\ c_ftp = {} /\ c_yielded = {}

\* BucketBossApp.__init__ and the start of the crawl thread (crawl_depth > 0)
CrawlInit ==
    /\ c_max_depth \in 1..MaxDepth
    /\ c_workers \in 1..MaxWorkers
    /\ crawl_status = [status |-> "pending", depth |-> 0,
                       cached_prefixes |-> 0]
    /\ c_pc = "pending" /\ c_level = <<>> /\ c_next_level = <<>> /\ c_idx = 1
    /\ c_futures = <<>> /\ c_ftp = {} /\ c_yielded = {}

MainIdle ==
    /\ m_pc = "none" /\ m_arg = <<>> /\ m_cmds = 0
    /\ it_used = 0 /\ it_seen = {} /\ it_observed = <<>> /\ it_start = <<>>
    /\ it_status = "none" /\ put_done = {} /\ listings = {}
    /\ last_write = <<>>

MainInit ==
    /\ m_pc = "idle" /\ m_arg = <<>> /\ m_cmds = 0
    /\ it_used = 0 /\ it_seen = {} /\ it_observed = <<>> /\ it_start = <<>>
    /\ it_status = "none" /\ put_done = {} /\ listings = {}
    /\ last_write = <<>>

\* lines 103-109
CrawlBegin ==
    /\ Alive
    /\ c_pc = "pending"
    /\ crawl_status' = [status |-> "loading", depth |-> 0,
                        cached_prefixes |-> 0]
    /\ c_level' = <<<<<<>>, 1>>>>
    /\ c_idx' = 1
    /\ c_pc' = "scan"
    /\ UNCHANGED <<c_max_depth, c_workers, c_next_level, c_futures, c_ftp,
                   c_yielded>>
    /\ UNCHANGED nonCrawlVars

\* one iteration of "for prefix, depth in current_level", lines 116-128
CrawlScan ==
    /\ Alive
    /\ c_pc = "scan"
    /\ LET prefix == c_level[c_idx][1]
           depth == c_level[c_idx][2]
       IN IF IsFresh(cache, prefix, now)
          THEN /\ crawl_status' = [crawl_status EXCEPT
                                     !.depth = Max(@, depth)]
               /\ c_next_level' = c_next_level \o
                     CrawlNext(prefix, cache[prefix].dirs, depth, c_max_depth)
               /\ UNCHANGED <<c_futures, c_ftp>>
          ELSE /\ c_futures' = Append(c_futures,
                     [prefix |-> prefix, depth |-> depth, state |-> "queued",
                      dirs |-> <<>>, files |-> <<>>, raised |-> FALSE])
               /\ c_ftp' = c_ftp \cup {Len(c_futures) + 1}
               /\ UNCHANGED <<crawl_status, c_next_level>>
    /\ c_idx' = c_idx + 1
    /\ c_pc' = IF c_idx = Len(c_level) THEN "collect" ELSE "scan"
    /\ UNCHANGED <<c_max_depth, c_workers, c_level, c_yielded>>
    /\ UNCHANGED nonCrawlVars

\* a pool thread takes the oldest queued future and calls
\* provider.list_objects(prefix), line 127
CrawlWorkerStart ==
    /\ Alive
    /\ Queued(c_futures) # {}
    /\ PoolCanStart(Running(c_futures), c_workers)
    /\ LET i == CHOOSE j \in Queued(c_futures) :
                   \A k \in Queued(c_futures) : j <= k
       IN c_futures' = [c_futures EXCEPT ![i] = [@ EXCEPT !.state = "running"]]
    /\ UNCHANGED <<c_max_depth, c_workers, crawl_status, c_pc, c_level,
                   c_next_level, c_idx, c_ftp, c_yielded>>
    /\ UNCHANGED nonCrawlVars

\* the remote call returns the listing as it is now, or raises
CrawlWorkerFinish(i) ==
    /\ Alive
    /\ i \in Running(c_futures)
    /\ LET p == c_futures[i].prefix
           r == ProviderList(remote, p)
       IN IF p \in failing
          THEN /\ c_futures' = [c_futures EXCEPT ![i] =
                     [@ EXCEPT !.state = "done", !.raised = TRUE]]
               /\ UNCHANGED listings
          ELSE /\ c_futures' = [c_futures EXCEPT ![i] =
                     [@ EXCEPT !.state = "done", !.dirs = r.dirs,
                               !.files = r.files]]
               /\ listings' = listings \cup {<<p, r.dirs, r.files>>}
    /\ UNCHANGED <<c_max_depth, c_workers, crawl_status, c_pc, c_level,
                   c_next_level, c_idx, c_ftp, c_yielded>>
    /\ UNCHANGED <<soloVars, dlVars, worldVars, walkVars, m_pc, m_arg, m_cmds, it_used,
                   it_seen, it_observed, it_start, it_status, put_done,
                   last_write>>

\* one iteration of "for future in as_completed(future_to_prefix)",
\* lines 130-143
CrawlCollect(i) ==
    /\ Alive
    /\ c_pc = "collect"
    /\ i \in c_ftp \ c_yielded
    /\ c_futures[i].state = "done"
    /\ c_yielded' = c_yielded \cup {i}
    /\ LET f == c_futures[i]
       IN IF f.raised
          THEN UNCHANGED <<cache, last_write, crawl_status, c_next_level>>
          ELSE /\ cache' = StoreRecord(cache, f.prefix, f.dirs, f.files, now)
               /\ last_write' = (f.prefix :> [dirs |-> f.dirs,
                                             files |-> f.files, ts |-> now])
                                @@ last_write
               /\ crawl_status' = CrawlStored(crawl_status, f.depth)
               /\ c_next_level' = c_next_level \o
                     CrawlNext(f.prefix, f.dirs, f.depth, c_max_depth)
    /\ UNCHANGED <<c_max_depth, c_workers, c_pc, c_level, c_idx, c_futures,
                   c_ftp>>
    /\ UNCHANGED <<soloVars, dlVars, walkVars, remote, failing, now, ticks, m_pc, m_arg,
                   m_cmds, it_used, it_seen, it_observed, it_start,
                   it_status, put_done, listings>>

\* executor.submit raises RuntimeError("cannot schedule new futures after
\* interpreter shutdown") when the shell has exited and the daemon crawl
\* thread is still scanning a level; the except of lines 153-155 sets
\* status "error" (and error_message) and the thread ends
CrawlSubmitRefused ==
    /\ ~Alive
    /\ c_pc = "scan"
    /\ ~IsFresh(cache, c_level[c_idx][1], now)
    /\ crawl_status' = [crawl_status EXCEPT !.status = "error"]
    /\ c_pc' = "failed"
    /\ UNCHANGED <<c_max_depth, c_workers, c_level, c_next_level, c_idx,
                   c_futures, c_ftp, c_yielded>>
    /\ UNCHANGED nonCrawlVars

\* current_level = next_level, the test of the while loop and, when the
\* loop ends, status = "complete": lines 145, 112-114 and 147
CrawlLevelDone ==
    /\ Alive
    /\ c_pc = "collect"
    /\ AsCompletedExhausted(c_ftp, c_yielded)
    /\ c_level' = c_next_level
    /\ c_next_level' = <<>>
    /\ c_ftp' = {}
    /\ c_yielded' = {}
    /\ c_idx' = 1
    /\ IF c_next_level = <<>>
       THEN /\ c_pc' = "finished"
            /\ crawl_status' = [crawl_status EXCEPT !.status = "complete"]
       ELSE /\ c_pc' = "scan"
            /\ UNCHANGED crawl_status
    /\ UNCHANGED <<c_max_depth, c_workers, c_futures>>
    /\ UNCHANGED nonCrawlVars

\* ====================================================== the shell's thread
\* the keys "put" uploads to and the prefixes "ls" lists
PutKeys == {<<"g">>, <<"a", "g">>}

LsPrefixes == {<<>>, <<"a">>}

\* ls: app.list_objects(prefix) up to its remote call, app.py lines 191-200
MainLsStart(p) ==
    /\ m_pc = "idle"
    /\ m_cmds < MaxCommands
    /\ m_cmds' = m_cmds + 1
    /\ IF IsFresh(cache, p, now)
       THEN UNCHANGED <<m_pc, m_arg>>
       ELSE m_pc' = "ls_fetch" /\ m_arg' = p
    /\ UNCHANGED <<it_used, it_seen, it_observed, it_start, it_status,
                   put_done, listings, last_write>>
    /\ UNCHANGED <<soloVars, dlVars, worldVars, walkVars, crawlVars>>

\* ls: the remote call returns or raises and list_objects finishes,
\* app.py lines 200-209
MainLsFinish ==
    /\ m_pc = "ls_fetch"
    /\ LET r == FetchAndStore(cache, m_arg, now, remote, failing)
       IN /\ cache' = r.cache
          /\ IF m_arg \in failing
             THEN UNCHANGED <<listings, last_write>>
             ELSE /\ listings' = listings \cup {<<m_arg, r.dirs, r.files>>}
                  /\ last_write' = (m_arg :> [dirs |-> r.dirs,
                                              files |-> r.files, ts |-> now])
                                   @@ last_write
    /\ m_pc' = "idle"
    /\ m_arg' = <<>>
    /\ UNCHANGED <<m_cmds, it_used, it_seen, it_observed, it_start,
                   it_status, put_done>>
    /\ UNCHANGED <<soloVars, dlVars, walkVars, crawlVars, remote, failing, now, ticks>>

\* put: provider.upload_file(local_path, target_key), transfer.py line 122
MainPutUpload(k) ==
    /\ m_pc = "idle"
    /\ m_cmds < MaxCommands
    /\ k \notin remote
    /\ m_cmds' = m_cmds + 1
    /\ remote' = remote \cup {k}
    /\ m_pc' = "put_inval"
    /\ m_arg' = k
    /\ UNCHANGED <<it_used, it_seen, it_observed, it_start, it_status,
                   put_done, listings, last_write>>
    /\ UNCHANGED <<soloVars, dlVars, walkVars, crawlVars, failing, cache, now, ticks>>

\* put: app.invalidate_cache_for_key(target_key), transfer.py line 124
MainPutInvalidate ==
    /\ m_pc = "put_inval"
    /\ cache' = Invalidate(cache, m_arg)
    /\ put_done' = put_done \cup {m_arg}
    /\ m_pc' = "idle"
    /\ m_arg' = <<>>
    /\ UNCHANGED <<m_cmds, it_used, it_seen, it_observed, it_start,
                   it_status, listings, last_write>>
    /\ UNCHANGED <<soloVars, dlVars, walkVars, crawlVars, remote, failing, now, ticks>>

\* stats or exit: the for loop over self.cache.items() starts (info.py
\* line 38 after the test of line 29, app.py line 173)
MainIterBegin(cmd) ==
    /\ m_pc = "idle"
    /\ m_cmds < MaxCommands
    /\ m_cmds' = m_cmds + 1
    /\ IF cmd = "stats" /\ DOMAIN cache = {}
       THEN UNCHANGED <<m_pc, m_arg, it_used, it_seen, it_observed,
                        it_start, it_status>>
       ELSE /\ m_pc' = "iter"
            /\ m_arg' = <<cmd>>
            /\ it_used' = Cardinality(DOMAIN cache)
            /\ it_seen' = {}
            /\ it_observed' = <<>>
            /\ it_start' = cache
            /\ it_status' = "running"
    /\ UNCHANGED <<put_done, listings, last_write>>
    /\ UNCHANGED <<soloVars, dlVars, worldVars, walkVars, crawlVars>>

\* the dict iterator is asked for its next item: RuntimeError when the size
\* of the dict is no longer the size it had when the loop started, the next
\* item otherwise, the end of the loop when there is none.  After exit the
\* process ends.
MainIterNext ==
    /\ m_pc = "iter"
    /\ IF Cardinality(DOMAIN cache) # it_used
       THEN /\ it_status' = "error"
            /\ m_pc' = IF m_arg = <<"exit">> THEN "exited" ELSE "idle"
            /\ UNCHANGED <<it_seen, it_observed>>
       ELSE IF it_seen = DOMAIN cache
       THEN /\ it_status' = "done"
            /\ m_pc' = IF m_arg = <<"exit">> THEN "exited" ELSE "idle"
            /\ UNCHANGED <<it_seen, it_observed>>
       ELSE /\ \E p \in DOMAIN cache \ it_seen :
                  /\ it_seen' = it_seen \cup {p}
                  /\ it_observed' = (p :> cache[p]) @@ it_observed
            /\ UNCHANGED <<it_status, m_pc>>
    /\ UNCHANGED <<m_arg, m_cmds, it_used, it_start, put_done, listings,
                   last_write>>
    /\ UNCHANGED <<soloVars, dlVars, worldVars, walkVars, crawlVars>>

NextCrawl ==
    \/ CrawlBegin
    \/ CrawlScan
    \/ CrawlWorkerStart
    \/ \E i \in 1..Len(c_futures) : CrawlWorkerFinish(i)
    \/ \E i \in 1..Len(c_futures) : CrawlCollect(i)
    \/ CrawlLevelDone
    \/ CrawlSubmitRefused
    \/ \E p \in LsPrefixes : MainLsStart(p)
    \/ MainLsFinish
    \/ \E k \in PutKeys : MainPutUpload(k)
    \/ MainPutInvalidate
    \/ \E cmd \in {"stats", "exit"} : MainIterBegin(cmd)
    \/ MainIterNext

\* ==================================================== parallel_download
FileNames == <<"f1", "f2", "f3", "f4", "f5">>

Sizes == {1, 2}

\* The remote key of the i-th candidate item: keys at the root, one level
\* down and two levels down.
ItemKey(i) ==
    CASE i % 3 = 1 -> <<"a", FileNames[i]>>
      [] i % 3 = 2 -> <<"b", "c", FileNames[i]>>
      [] OTHER     -> <<FileNames[i]>>

ItemLists ==
    UNION {{[i \in 1..n |-> [key |-> ItemKey(i), size |-> sz[i]]] :
               sz \in [1..n -> Sizes]} : n \in 0..MaxItems}

\* for remote_key, file_size in file_keys: ... (the max_size pre-filter)
Exceeds_inclusive(item, limit) == limit # None /\ item.size >= limit

Exceeds(item, limit) == limit # None /\ item.size > limit

ToDownload_nocontinue(items, limit) == items

ToDownload(items, limit) ==
    SelectSeq(items, LAMBDA it : ~Exceeds(it, limit))

RECURSIVE Skipped(_, _)
Skipped(items, limit) ==
    IF items = <<>> THEN <<>>
    ELSE (IF Exceeds(Head(items), limit)
             THEN <<<<Head(items).key, "exceeds max-size">>>>
             ELSE <<>>) \o Skipped(Tail(items), limit)

\* local_path of _download_one, relative to local_base_dir
LocalPath(remote_key, isFlat) ==
    IF isFlat THEN <<Last(remote_key)>> ELSE remote_key

\* os.path.dirname(local_path); local_base_dir itself when the path has one
\* segment
LocalParent(local_path) == Front(local_path)

\* The try/except around one item's result: what is appended where.
\* raised: an exception leaves parallel_download.
RecordResult_noexcept(key, path, outcome, dl, errs) ==
    IF outcome = "ok"
    THEN [downloaded |-> Append(dl, <<key, path>>), errors |-> errs,
          raised |-> FALSE]
    ELSE [downloaded |-> dl, errors |-> errs, raised |-> TRUE]

RecordResult(key, path, outcome, dl, errs) ==
    IF outcome = "ok"
    THEN [downloaded |-> Append(dl, <<key, path>>), errors |-> errs,
          raised |-> FALSE]
    ELSE [downloaded |-> dl, errors |-> Append(errs, <<key, "error">>),
          raised |-> FALSE]

\* provider.download_file(remote_key, local_path): returns or raises
DownloadOutcome(key, raises) == IF key \in raises THEN "raise" ELSE "ok"

\* remote_key = future_to_key[future], line 194
KeyOfFuture_loopvar(ftk, i) == ftk[Len(ftk)]

KeyOfFuture(ftk, i) == ftk[i]

\* progress_callback(len(downloaded) + len(errors), total_count, remote_key),
\* lines 183-184 and 201-202
ProgressArgs_successes(dl, errs, total_count, remote_key) ==
    <<Len(dl), total_count, remote_key>>

ProgressArgs(dl, errs, total_count, remote_key) ==
    <<Len(dl) + Len(errs), total_count, remote_key>>

\* The whole "if workers <= 1" branch, lines 176-185, run on the items
\* todo from the lists dl and errs: the lists it returns.
RECURSIVE SequentialRun(_, _, _, _, _)
SequentialRun(todo, isFlat, raises, dl, errs) ==
    IF todo = <<>> THEN [downloaded |-> dl, errors |-> errs]
    ELSE LET key == Head(todo).key
             r == RecordResult(key, LocalPath(key, isFlat),
                               DownloadOutcome(key, raises), dl, errs)
         IN SequentialRun(Tail(todo), isFlat, raises, r.downloaded, r.errors)

DlIdle ==
    /\ file_keys = <<>> /\ dl_workers = 1 /\ max_size = None
    /\ flat = FALSE /\ dl_raises = {}
    /\ dl_pc = "idle" /\ to_download = <<>> /\ downloaded = <<>>
    /\ skipped = <<>> /\ errors = <<>> /\ dl_next = 1
    /\ future_to_key = <<>> /\ dl_yielded = {} /\ dl_progress = <<>>
    /\ dl_queue = <<>> /\ dl_running = {} /\ dl_outcome = <<>>
    /\ local_dirs = {} /\ dl_calls = {}

DlInit ==
    /\ file_keys \in ItemLists
    /\ dl_workers \in 1..MaxWorkers
    /\ max_size \in {None, 1}
    /\ flat \in BOOLEAN
    /\ dl_raises \in SUBSET {file_keys[i].key : i \in 1..Len(file_keys)}
    /\ dl_pc = "start" /\ to_download = <<>> /\ downloaded = <<>>
    /\ skipped = <<>> /\ errors = <<>> /\ dl_next = 1
    /\ future_to_key = <<>> /\ dl_yielded = {} /\ dl_progress = <<>>
    /\ dl_queue = <<>> /\ dl_running = {} /\ dl_outcome = <<>>
    /\ local_dirs = {} /\ dl_calls = {}

\* lines 145-160 and the choice of the branch at line 176
DlFilter ==
    /\ dl_pc = "start"
    /\ to_download' = ToDownload(file_keys, max_size)
    /\ skipped' = Skipped(file_keys, max_size)
    /\ dl_outcome' = [i \in 1..Len(to_download') |-> "none"]
    /\ dl_pc' = IF to_download' = <<>> THEN "returned"
                ELSE IF dl_workers <= 1 THEN "seq" ELSE "submit"
    /\ UNCHANGED <<file_keys, dl_workers, max_size, flat, dl_raises,
                   downloaded, errors, dl_next, future_to_key, dl_yielded,
                   dl_progress, dl_queue, dl_running, local_dirs, dl_calls>>
    /\ UNCHANGED nonDlVars

\* one iteration of the sequential loop, lines 177-184
DlSeqStep ==
    /\ dl_pc = "seq"
    /\ dl_next <= Len(to_download)
    /\ LET key == to_download[dl_next].key
           path == LocalPath(key, flat)
           out == DownloadOutcome(key, dl_raises)
           r == RecordResult(key, path, out, downloaded, errors)
       IN /\ local_dirs' = local_dirs \cup {LocalParent(path)}
          /\ dl_calls' = dl_calls \cup {key}
          /\ dl_outcome' = [dl_outcome EXCEPT ![dl_next] = out]
          /\ downloaded' = r.downloaded
          /\ errors' = r.errors
          /\ IF r.raised
             THEN dl_pc' = "raised" /\ UNCHANGED dl_progress
             ELSE /\ dl_pc' = "seq"
                  /\ dl_progress' = Append(dl_progress,
                        ProgressArgs(r.downloaded, r.errors,
                                     Len(to_download), key))
    /\ dl_next' = dl_next + 1
    /\ UNCHANGED <<file_keys, dl_workers, max_size, flat, dl_raises,
                   to_download, skipped, future_to_key, dl_yielded,
                   dl_queue, dl_running>>
    /\ UNCHANGED nonDlVars

\* executor.submit(_download_one, remote_key, file_size), lines 189-191
DlSubmit ==
    /\ dl_pc = "submit"
    /\ dl_queue' = Append(dl_queue, dl_next)
    /\ future_to_key' = Append(future_to_key, to_download[dl_next].key)
    /\ dl_next' = dl_next + 1
    /\ dl_pc' = IF dl_next = Len(to_download) THEN "collect" ELSE "submit"
    /\ UNCHANGED <<file_keys, dl_workers, max_size, flat, dl_raises,
                   to_download, downloaded, skipped, errors, dl_yielded,
                   dl_progress, dl_running, dl_outcome, local_dirs,
                   dl_calls>>
    /\ UNCHANGED nonDlVars

\* a pool thread takes the oldest queued task and runs _download_one up to
\* the remote call, lines 162-173
DlWorkerStart ==
    /\ dl_queue # <<>>
    /\ PoolCanStart(dl_running, dl_workers)
    /\ LET i == Head(dl_queue)
           path == LocalPath(to_download[i].key, flat)
       IN /\ dl_running' = dl_running \cup {i}
          /\ local_dirs' = local_dirs \cup {LocalParent(path)}
          /\ dl_calls' = dl_calls \cup {to_download[i].key}
    /\ dl_queue' = Tail(dl_queue)
    /\ UNCHANGED <<file_keys, dl_workers, max_size, flat, dl_raises, dl_pc,
                   to_download, downloaded, skipped, errors, dl_next,
                   future_to_key, dl_yielded, dl_progress, dl_outcome>>
    /\ UNCHANGED nonDlVars

\* the remote call of a running task returns or raises; the future is done
DlWorkerFinish(i) ==
    /\ i \in dl_running
    /\ dl_running' = dl_running \ {i}
    /\ dl_outcome' = [dl_outcome EXCEPT
                        ![i] = DownloadOutcome(to_download[i].key, dl_raises)]
    /\ UNCHANGED <<file_keys, dl_workers, max_size, flat, dl_raises, dl_pc,
                   to_download, downloaded, skipped, errors, dl_next,
                   future_to_key, dl_yielded, dl_progress, dl_queue,
                   local_dirs, dl_calls>>
    /\ UNCHANGED nonDlVars

\* one iteration of "for future in as_completed(future_to_key)",
\* lines 193-202
DlCollect(i) ==
    /\ dl_pc = "collect"
    /\ i \in 1..Len(to_download)
    /\ i \notin dl_yielded
    /\ dl_outcome[i] # "none"
    /\ LET key == KeyOfFuture(future_to_key, i)
           path == LocalPath(to_download[i].key, flat)
           r == RecordResult(key, path, dl_outcome[i], downloaded, errors)
       IN /\ downloaded' = r.downloaded
          /\ errors' = r.errors
          /\ IF r.raised
             THEN dl_pc' = "raised" /\ UNCHANGED dl_progress
             ELSE /\ dl_pc' = "collect"
                  /\ dl_progress' = Append(dl_progress,
                        ProgressArgs(r.downloaded, r.errors,
                                     Len(to_download), key))
    /\ dl_yielded' = dl_yielded \cup {i}
    /\ UNCHANGED <<file_keys, dl_workers, max_size, flat, dl_raises,
                   to_download, skipped, dl_next, future_to_key, dl_queue,
                   dl_running, dl_outcome, local_dirs, dl_calls>>
    /\ UNCHANGED nonDlVars

\* return downloaded, skipped, errors (line 185 or line 204)
DlReturn ==
    /\ \/ dl_pc = "seq" /\ dl_next > Len(to_download)
       \/ dl_pc = "collect" /\ dl_yielded = 1..Len(to_download)
    /\ dl_pc' = "returned"
    /\ UNCHANGED <<file_keys, dl_workers, max_size, flat, dl_raises,
                   to_download, downloaded, skipped, errors, dl_next,
                   future_to_key, dl_yielded, dl_progress, dl_queue,
                   dl_running, dl_outcome, local_dirs, dl_calls>>
    /\ UNCHANGED nonDlVars

NextDownload ==
    \/ DlFilter
    \/ DlSeqStep
    \/ DlSubmit
    \/ DlWorkerStart
    \/ \E i \in 1..MaxItems + 1 : DlWorkerFinish(i)
    \/ \E i \in 1..MaxItems + 1 : DlCollect(i)
    \/ DlReturn

\* ===================================================== a shell session
\* One BucketBossApp used from the shell's thread alone (no background
\* crawl): ls and put are entered while time passes.

\* DEFAULT_CONFIG["general"]["cache_ttl"]
DEFAULT_CACHE_TTL == 21600

\* general.cache_ttl of the configuration load_config returns: the default,
\* or the value of the user's config.json
ConfiguredTTLs == {0, DEFAULT_CACHE_TTL}

Providers == {"S3Provider", "S3XMLProvider"}

\* provider.list_objects(prefix) with limit=None.  When the request fails
\* S3Provider re-raises; S3XMLProvider prints the error and returns
\* [], [], None.
ProviderListObjects(kind, keys, p, fails) ==
    IF ~fails
    THEN LET r == ProviderList(keys, p)
         IN [dirs |-> r.dirs, files |-> r.files, raised |-> FALSE]
    ELSE [dirs |-> <<>>, files |-> <<>>, raised |-> kind # "S3XMLProvider"]

\* app.list_objects(prefix) with limit=None and next_token=None: the result,
\* whether provider.list_objects was called, and the cache afterwards
ListObjects(kind, c, p, t, keys, fails) ==
    IF IsFresh(c, p, t)
    THEN [dirs |-> c[p].dirs, files |-> c[p].files, called |-> FALSE,
          cache |-> c]
    ELSE LET r == ProviderListObjects(kind, keys, p, fails)
         IN IF r.raised
            THEN [dirs |-> <<>>, files |-> <<>>, called |-> TRUE,
                  cache |-> c]
            ELSE [dirs |-> r.dirs, files |-> r.files, called |-> TRUE,
                  cache |-> StoreRecord(c, p, r.dirs, r.files, t)]

NoCommand ==
    [op |-> "none", arg |-> <<>>, before |-> <<>>, at |-> 0,
     called |-> FALSE, failed |-> FALSE, dirs |-> <<>>, files |-> <<>>]

AppIdle ==
    /\ provider = "S3Provider" /\ cache_ttl = DEFAULT_CACHE_TTL
    /\ a_pc = "off" /\ a_ops = 0 /\ a_last = NoCommand

\* main(): load_config, the provider of the command line, BucketBossApp()
AppInit ==
    /\ provider \in Providers
    /\ cache_ttl \in ConfiguredTTLs
    /\ a_pc = "ready" /\ a_ops = 0 /\ a_last = NoCommand

\* ls <prefix>: one call of app.list_objects; the request to the remote
\* store, when one is made, fails or not
SessionLs(p, fails) ==
    /\ a_pc = "ready"
    /\ a_ops < MaxOps
    /\ LET r == ListObjects(provider, cache, p, now, remote, fails)
       IN /\ cache' = r.cache
          /\ a_last' = [op |-> "ls", arg |-> p, before |-> cache,
                        at |-> now, called |-> r.called,
                        failed |-> r.called /\ fails,
                        dirs |-> r.dirs, files |-> r.files]
    /\ a_ops' = a_ops + 1
    /\ UNCHANGED <<provider, cache_ttl, a_pc, remote, failing, now, ticks>>
    /\ UNCHANGED <<dlVars, walkVars, crawlVars, mainVars, persistVars,
                   pathVars>>

\* put <local> <key>: upload_file, then invalidate_cache_for_key; the
\* read-only S3XMLProvider raises NotImplementedError and do_put returns
SessionPut(key) ==
    /\ a_pc = "ready"
    /\ a_ops < MaxOps
    /\ IF provider = "S3XMLProvider"
       THEN UNCHANGED <<remote, cache>>
       ELSE /\ remote' = remote \cup {key}
            /\ cache' = Invalidate(cache, key)
    /\ a_last' = [op |-> "put", arg |-> key, before |-> cache, at |-> now,
                  called |-> provider # "S3XMLProvider", failed |-> FALSE,
                  dirs |-> <<>>, files |-> <<>>]
    /\ a_ops' = a_ops + 1
    /\ UNCHANGED <<provider, cache_ttl, a_pc, failing, now, ticks>>
    /\ UNCHANGED <<dlVars, walkVars, crawlVars, mainVars, persistVars,
                   pathVars>>

\* time passes between two commands
SessionTick ==
    /\ a_pc = "ready"
    /\ Tick
    /\ UNCHANGED <<dlVars, walkVars, crawlVars, mainVars, appVars,
                   persistVars, pathVars>>

NextSession ==
    \/ \E p \in LsPrefixes, fails \in BOOLEAN : SessionLs(p, fails)
    \/ \E k \in PutKeys : SessionPut(k)
    \/ SessionTick

\* ============================================= _save_cache / _load_cache
\* Values of the cache file.  A JSON object is a record of its members; an
\* array, a number and a string carry a type tag, as do the datetime values
\* of the process.
JList(items) == [type |-> "list", items |-> items]

JNum(n) == [type |-> "number", n |-> n]

JStr(text) == [type |-> "str", text |-> text]

\* isinstance(v, dict)
IsDict(v) == "type" \notin DOMAIN v

\* the days of the month the objects were modified on, as isoformat writes
\* them
DayText == <<"01", "02">>

\* 'LastModified' of a listing: timezone-aware (boto3, S3 XML with an
\* offset) or naive
Datetimes ==
    {[type |-> "datetime", day |-> d, tz |-> z] :
        d \in 1..Len(DayText), z \in {"", "+00:00"}}

\* datetime.now()
DatetimeNow == [type |-> "datetime", day |-> 0, tz |-> ""]

\* datetime.isoformat(): YYYY-MM-DDTHH:MM:SS and the UTC offset when the
\* value has one
IsoFormat(d) ==
    JStr(<<"2024-01-", DayText[d.day], "T00:00:00", d.tz>>)

\* datetime.fromisoformat(s): the datetime, or ValueError
FromIsoFormat_naive(s) ==
    IF /\ Len(s.text) = 4
       /\ s.text[1] = "2024-01-"
       /\ s.text[2] \in Range(DayText)
       /\ s.text[3] = "T00:00:00"
       /\ s.text[4] \in {"", "+00:00"}
    THEN [type |-> "datetime",
          day |-> CHOOSE d \in 1..Len(DayText) : DayText[d] = s.text[2],
          tz |-> ""]
    ELSE [type |-> "ValueError"]

FromIsoFormat(s) ==
    IF /\ Len(s.text) = 4
       /\ s.text[1] = "2024-01-"
       /\ s.text[2] \in Range(DayText)
       /\ s.text[3] = "T00:00:00"
       /\ s.text[4] \in {"", "+00:00"}
    THEN [type |-> "datetime",
          day |-> CHOOSE d \in 1..Len(DayText) : DayText[d] = s.text[2],
          tz |-> s.text[4]]
    ELSE [type |-> "ValueError"]

\* file_info_s of _save_cache, lines 177-179
SerializeFile(file_info) ==
    IF /\ "last_modified" \in DOMAIN file_info
       /\ file_info.last_modified.type = "datetime"
    THEN [file_info EXCEPT !.last_modified = IsoFormat(@)]
    ELSE file_info

\* serializable_cache[prefix] = (dirs, files_serializable, timestamp), as
\* json.dump writes it: the tuple and the lists become arrays
SerializeEntry(rec) ==
    JList(<<JList(rec.dirs),
            JList([i \in 1..Len(rec.files) |-> SerializeFile(rec.files[i])]),
            JNum(rec.ts)>>)

\* what json.load gives for a value that is stored as it is: a list for an
\* array, a float for a number
FromJson(v) ==
    IF v.type = "list" THEN v.items
    ELSE IF v.type = "number" THEN v.n
    ELSE v

\* file_info of _load_cache, lines 141-151: the dict that is appended, or
\* the exception of .copy() or of the subscript
LoadFile(file_info_s) ==
    IF ~IsDict(file_info_s)
    THEN [raised |-> TRUE]
    ELSE IF /\ "last_modified" \in DOMAIN file_info_s
            /\ file_info_s.last_modified.type = "str"
    THEN LET d == FromIsoFormat(file_info_s.last_modified)
         IN [raised |-> FALSE,
             file |-> [file_info_s EXCEPT !.last_modified =
                          IF d.type = "ValueError" THEN DatetimeNow ELSE d]]
    ELSE [raised |-> FALSE, file |-> file_info_s]

\* one iteration of "for prefix, entry in loaded_data.items()", lines
\* 138-153: the record stored, or the exception of the unpacking, of the
\* loop over files_serializable or of LoadFile
LoadEntry(entry) ==
    IF entry.type # "list" \/ Len(entry.items) # 3
    THEN [raised |-> TRUE]
    ELSE LET dirs == entry.items[1]
             files_serializable == entry.items[2]
             timestamp == entry.items[3]
         IN IF files_serializable.type # "list"
            THEN [raised |-> TRUE]
            ELSE LET fs == [i \in 1..Len(files_serializable.items) |->
                               LoadFile(files_serializable.items[i])]
                 IN IF \E i \in 1..Len(fs) : fs[i].raised
                    THEN [raised |-> TRUE]
                    ELSE [raised |-> FALSE,
                          rec |-> [dirs |-> FromJson(dirs),
                                   files |-> [i \in 1..Len(fs) |-> fs[i].file],
                                   ts |-> FromJson(timestamp)]]

\* the file infos of a cached listing: the i-th file of a listing
ListedNames == <<"x", "y", "z">>

FileInfoAt(i, d) ==
    [name |-> ListedNames[i], size |-> FileSize(ListedNames[i]),
     last_modified |-> d]

FileLists ==
    UNION {{[i \in 1..n |-> FileInfoAt(i, ds[i])] : ds \in [1..n -> Datetimes]} :
             n \in 0..MaxFiles}

\* the records list_objects and the crawl store
CacheRecords ==
    {[dirs |-> ds, files |-> fs, ts |-> t] :
        ds \in {<<>>, <<"a">>}, fs \in FileLists, t \in {0, TickStep}}

\* the caches of a running application
CacheContents ==
    {<<>>}
      \cup {p :> r : p \in LsPrefixes, r \in CacheRecords}
      \cup {(<<>> :> r) @@ (<<"a">> :> q) : r \in CacheRecords, q \in CacheRecords}

GoodEntry == JList(<<JList(<<"a">>), JList(<<>>), JNum(0)>>)

\* entries of a cache file that _save_cache does not write
MalformedEntries ==
    { \* an array of two elements
      JList(<<JList(<<"a">>), JList(<<>>)>>),
      \* not an array
      JNum(0),
      \* files is not an array
      JList(<<JList(<<"a">>), JNum(0), JNum(0)>>),
      \* a file info that is not an object
      JList(<<JList(<<>>), JList(<<JNum(0)>>), JNum(0)>>),
      \* a last_modified that is not an ISO date
      JList(<<JList(<<>>),
              JList(<<[name |-> "x", size |-> 10,
                       last_modified |-> JStr(<<"yesterday">>)]>>),
              JNum(0)>>),
      \* a timestamp that is not a number
      JList(<<JList(<<"a">>), JList(<<>>), JStr(<<"yesterday">>)>>) }

\* the cache file the process finds when it starts: none, one that is not
\* JSON, one whose top level is not an object, and objects with a malformed
\* entry before or after a good one
FoundFiles ==
    {[kind |-> "missing"], [kind |-> "garbage"], [kind |-> "array"]}
      \cup {[kind |-> "object", order |-> <<<<>>>>, member |-> (<<>> :> e)] :
              e \in MalformedEntries}
      \cup {[kind |-> "object", order |-> o,
             member |-> (<<>> :> GoodEntry) @@ (<<"a">> :> e)] :
              o \in {<< <<>>, <<"a">> >>, << <<"a">>, <<>> >>},
              e \in MalformedEntries}

NoSave == [written |-> FALSE, cache |-> <<>>]

PersistIdle ==
    /\ disk = [kind |-> "missing"] /\ p_pc = "off" /\ p_todo = <<>>
    /\ p_saved = NoSave

\* either an application that has filled its cache and is about to exit, or
\* a process about to start on a cache file it did not write
PersistInit ==
    /\ remote = {} /\ failing = {} /\ now = 0 /\ ticks = 0
    /\ p_todo = <<>> /\ p_saved = NoSave
    /\ \/ /\ p_pc = "running"
          /\ cache \in CacheContents
          /\ disk = [kind |-> "missing"]
       \/ /\ p_pc = "stopped"
          /\ cache = <<>>
          /\ disk \in FoundFiles

\* exit: _save_cache writes the file (the order of the entries is the
\* order of the dict), then the process ends
PersistSave(order) ==
    /\ p_pc = "running"
    /\ Len(order) = Cardinality(DOMAIN cache)
    /\ Range(order) = DOMAIN cache
    /\ disk' = [kind |-> "object", order |-> order,
                member |-> [p \in DOMAIN cache |-> SerializeEntry(cache[p])]]
    /\ p_saved' = [written |-> TRUE, cache |-> cache]
    /\ cache' = <<>>
    /\ p_pc' = "stopped"
    /\ UNCHANGED <<p_todo, remote, failing, now, ticks>>
    /\ UNCHANGED <<dlVars, walkVars, crawlVars, mainVars, appVars, pathVars>>

\* start: _load_cache up to the loop, lines 130-136, with the except
\* branches of lines 155-166
PersistLoadBegin ==
    /\ p_pc = "stopped"
    /\ cache' = <<>>
    /\ IF disk.kind = "object"
       THEN p_pc' = "loading" /\ p_todo' = disk.order
       ELSE p_pc' = "started" /\ UNCHANGED p_todo
    /\ UNCHANGED <<disk, p_saved, remote, failing, now, ticks>>
    /\ UNCHANGED <<dlVars, walkVars, crawlVars, mainVars, appVars, pathVars>>

\* one iteration of the loop of line 137, or its end; an exception ends
\* _load_cache in the except branch, line 166
PersistLoadEntry ==
    /\ p_pc = "loading"
    /\ IF p_todo = <<>>
       THEN p_pc' = "started" /\ UNCHANGED <<cache, p_todo>>
       ELSE LET prefix == Head(p_todo)
                r == LoadEntry(disk.member[prefix])
            IN IF r.raised
               THEN /\ cache' = <<>>
                    /\ p_todo' = <<>>
                    /\ p_pc' = "started"
               ELSE /\ cache' = (prefix :> r.rec) @@ cache
                    /\ p_todo' = Tail(p_todo)
                    /\ p_pc' = "loading"
    /\ UNCHANGED <<disk, p_saved, remote, failing, now, ticks>>
    /\ UNCHANGED <<dlVars, walkVars, crawlVars, mainVars, appVars, pathVars>>

PrefixOrders == {<<>>, << <<>> >>, << <<"a">> >>,
                 << <<>>, <<"a">> >>, << <<"a">>, <<>> >>}

NextPersist ==
    \/ \E order \in PrefixOrders : PersistSave(order)
    \/ PersistLoadBegin
    \/ PersistLoadEntry

\* =========================================================== resolve_path
\* A string is the sequence of its characters.

\* s.startswith('/') and s.endswith('/')
StartsWithSlash(s) == s # <<>> /\ Head(s) = "/"

EndsWithSlash(s) == s # <<>> /\ Last(s) = "/"

\* s.lstrip('/')
RECURSIVE LStrip(_)
LStrip(s) == IF StartsWithSlash(s) THEN LStrip(Tail(s)) ELSE s

\* s.rstrip('/')
RECURSIVE RStrip(_)
RStrip(s) == IF EndsWithSlash(s) THEN RStrip(Front(s)) ELSE s

\* s.split('/'): the pieces between the slashes, empty pieces included
RECURSIVE Split(_)
Split(s) ==
    IF \A i \in 1..Len(s) : s[i] # "/"
    THEN <<s>>
    ELSE LET i == CHOOSE i \in 1..Len(s) :
                     s[i] = "/" /\ \A j \in 1..i - 1 : s[j] # "/"
         IN <<SubSeq(s, 1, i - 1)>> \o Split(SubSeq(s, i + 1, Len(s)))

\* '/'.join(parts)
RECURSIVE Join(_)
Join(parts) ==
    IF parts = <<>> THEN <<>>
    ELSE IF Len(parts) = 1 THEN parts[1]
    ELSE parts[1] \o <<"/">> \o Join(Tail(parts))

\* the body of "for part in path_parts", s3.py lines 123-127
NormalizeStep_keep(normalized_parts, part) ==
    IF part = <<".", ".">>
    THEN IF normalized_parts # <<>> THEN Front(normalized_parts)
         ELSE Append(normalized_parts, part)
    ELSE IF part # <<>> /\ part # <<".">>
    THEN Append(normalized_parts, part)
    ELSE normalized_parts

NormalizeStep(normalized_parts, part) ==
    IF part = <<".", ".">>
    THEN IF normalized_parts # <<>> THEN Front(normalized_parts)
         ELSE normalized_parts
    ELSE IF part # <<>> /\ part # <<".">>
    THEN Append(normalized_parts, part)
    ELSE normalized_parts

\* the loop of lines 121-127 over the parts that are left
RECURSIVE Normalize(_, _)
Normalize(normalized_parts, path_parts) ==
    IF path_parts = <<>> THEN normalized_parts
    ELSE Normalize(NormalizeStep(normalized_parts, Head(path_parts)),
                   Tail(path_parts))

\* path_parts of S3Provider.resolve_path, lines 114-119
PathParts_absolute(cur, inp) == Split(LStrip(inp))

PathParts(cur, inp) ==
    IF StartsWithSlash(inp)
    THEN Split(LStrip(inp))
    ELSE (IF cur # <<>> THEN Split(RStrip(cur)) ELSE <<>>) \o Split(inp)

\* the trailing slash of S3Provider.resolve_path, lines 131-134
TrailingSlash_asis(normalized_path, isdir) == normalized_path

TrailingSlash(normalized_path, isdir) ==
    IF isdir /\ normalized_path # <<>>
    THEN Append(normalized_path, "/")
    ELSE IF /\ ~isdir
            /\ EndsWithSlash(normalized_path)
            /\ normalized_path # <<"/">>
    THEN RStrip(normalized_path)
    ELSE normalized_path

\* S3Provider.resolve_path(current_prefix, input_path, is_directory)
ResolvePath(cur, inp, isdir) ==
    TrailingSlash(Join(Normalize(<<>>, PathParts(cur, inp))), isdir)

\* S3XMLProvider.resolve_path, s3xml.py lines 291-314
XMLResolvePath(cur, inp, isdir) ==
    LET path_parts ==
            IF StartsWithSlash(inp)
            THEN Split(LStrip(inp))
            ELSE (IF cur # <<>> THEN Split(RStrip(cur)) ELSE <<>>)
                    \o Split(inp)
        normalized_path == Join(Normalize(<<>>, path_parts))
    IN IF isdir /\ normalized_path # <<>>
       THEN Append(normalized_path, "/")
       ELSE IF /\ ~isdir
               /\ EndsWithSlash(normalized_path)
               /\ normalized_path # <<"/">>
       THEN RStrip(normalized_path)
       ELSE normalized_path

\* path of MultiBucketProvider.resolve_path, s3.py lines 248-251: the
\* current prefix and the input are concatenated before the split
MultiPath_input(cur, inp) == IF StartsWithSlash(inp) THEN LStrip(inp) ELSE inp

MultiPath(cur, inp) == IF StartsWithSlash(inp) THEN LStrip(inp) ELSE cur \o inp

\* MultiBucketProvider.resolve_path, s3.py lines 247-265
MultiResolvePath(cur, inp, isdir) ==
    LET new_path == Join(Normalize(<<>>, Split(MultiPath(cur, inp))))
    IN IF isdir /\ new_path # <<>>
       THEN Append(new_path, "/")
       ELSE IF ~isdir /\ EndsWithSlash(new_path)
       THEN RStrip(new_path)
       ELSE new_path

PathProviders == {"S3Provider", "S3XMLProvider", "MultiBucketProvider"}

\* provider.resolve_path of the provider class in use
ResolvePathOf(kind, cur, inp, isdir) ==
    CASE kind = "S3XMLProvider" -> XMLResolvePath(cur, inp, isdir)
      [] kind = "MultiBucketProvider" -> MultiResolvePath(cur, inp, isdir)
      [] OTHER -> ResolvePath(cur, inp, isdir)

\* app.current_prefix: '' or a directory path that ends with '/'
CurrentPrefixes == {<<>>, <<"a", "/">>, <<"a", "/", "b", "/">>}

\* the pieces the paths a user types are made of
PathSegments == {<<>>, <<".">>, <<".", ".">>, <<"x">>, <<"c">>}

\* the paths typed: one to MaxSegments pieces with '/' between them
InputPaths ==
    UNION {{Join(segs) : segs \in [1..n -> PathSegments]} :
             n \in 1..MaxSegments}

PathIdle ==
    /\ current_prefix = <<>> /\ input_path = <<>> /\ is_directory = FALSE
    /\ r_pc = "off" /\ r_result = <<>>
    /\ r_provider = "S3Provider" /\ r_calls = 0

\* a command with a path argument is entered: cd (is_directory=True), or
\* the file lookup of ls, cat, get (is_directory=False)
PathInit ==
    /\ r_provider \in PathProviders
    /\ current_prefix \in CurrentPrefixes
    /\ input_path \in InputPaths
    /\ is_directory \in BOOLEAN
    /\ r_pc = "call" /\ r_result = <<>> /\ r_calls = 1

\* provider.resolve_path(app.current_prefix, path, is_directory) returns
PathResolve ==
    /\ r_pc = "call"
    /\ r_result' = ResolvePathOf(r_provider, current_prefix, input_path,
                                 is_directory)
    /\ r_pc' = "returned"
    /\ UNCHANGED <<current_prefix, input_path, is_directory, r_provider,
                   r_calls>>
    /\ UNCHANGED <<dlVars, worldVars, walkVars, crawlVars, mainVars,
                   appVars, persistVars>>

\* the paths of the commands that follow
FollowUpPaths == {<<".">>, <<".", ".">>, <<"x">>}

\* the rest of the command, then the next cd is entered.  After cd (navigation.py lines 98-138) app.current_prefix is the resolved
\* prefix when the directory is found or needs no lookup, and is unchanged
\* otherwise; the other commands leave it unchanged.
PathNext(found, inp) ==
    /\ r_pc = "returned"
    /\ r_calls < MaxCalls
    /\ current_prefix' = IF is_directory /\ found THEN r_result
                         ELSE current_prefix
    /\ input_path' = inp
    /\ is_directory' = TRUE
    /\ r_pc' = "call"
    /\ r_calls' = r_calls + 1
    /\ UNCHANGED <<r_result, r_provider>>
    /\ UNCHANGED <<dlVars, worldVars, walkVars, crawlVars, mainVars,
                   appVars, persistVars>>

NextPath ==
    \/ PathResolve
    \/ \E found \in BOOLEAN, inp \in FollowUpPaths : PathNext(found, inp)

\* the bucket of a session; whether a request fails is decided per request
\* ============================ the single-file program: src/bucketboss.py
\* obj['LastModified'] of an object, by its file name
LastModified(name) ==
    CASE name = "r" -> 3
      [] name = "x" -> 1
      [] name = "y" -> 2
      [] OTHER      -> 4

NameRank(name) == CHOOSE i \in 1..Len(NameOrder) : NameOrder[i] = name

SortKeys == {"name", "date", "size"}

\* the order files.sort(key=..., reverse=...) puts two entries in: by name
\* ascending, by last_modified descending, by size descending
SortsBefore(f, g, sort_key) ==
    CASE sort_key = "date" -> LastModified(f.name) > LastModified(g.name)
      [] sort_key = "size" -> f.size > g.size
      [] OTHER             -> NameRank(f.name) < NameRank(g.name)

\* list.sort is stable: an entry goes in front of the first entry it sorts
\* before
RECURSIVE InsertSorted(_, _, _)
InsertSorted(f, sorted, sort_key) ==
    IF sorted = <<>> THEN <<f>>
    ELSE IF SortsBefore(f, Head(sorted), sort_key) THEN <<f>> \o sorted
    ELSE <<Head(sorted)>> \o InsertSorted(f, Tail(sorted), sort_key)

RECURSIVE SortFiles(_, _)
SortFiles(files, sort_key) ==
    IF files = <<>> THEN <<>>
    ELSE InsertSorted(Last(files), SortFiles(Front(files), sort_key),
                      sort_key)

\* S3Provider.list_objects(prefix, sort_key) of src/bucketboss.py
LegacyProviderList(keys, p, sort_key) ==
    [dirs  |-> SortNames(RemoteDirs(keys, p)),
     files |-> SortFiles(FileEntries(SortNames(RemoteFiles(keys, p))),
                         sort_key)]

\* The listing part of do_ls (src/bucketboss.py lines 505-527 and the
\* except of line 571): on a cache hit files is entry[1] itself and
\* files.sort reorders that list; on a miss the provider is asked and the
\* record stored; an exception of the provider is printed.
LegacyDoLs(c, p, sort_key, t, keys, fails) ==
    IF IsFresh(c, p, t)
    THEN [called |-> FALSE, failed |-> FALSE,
          cache |-> [c EXCEPT ![p] =
                       [@ EXCEPT !.files = SortFiles(@, sort_key)]]]
    ELSE IF fails
    THEN [called |-> TRUE, failed |-> TRUE, cache |-> c]
    ELSE LET r == LegacyProviderList(keys, p, sort_key)
         IN [called |-> TRUE, failed |-> FALSE,
             cache |-> StoreRecord(c, p, r.dirs, r.files, t)]

LegacyTrees == {
    {<<"x">>, <<"y">>, <<"a", "z">>},
    {<<"r">>, <<"a", "x">>, <<"a", "y">>} }

LegacyWorldInit ==
    /\ remote \in LegacyTrees
    /\ failing = {}
    /\ cache = <<>>
    /\ now = 0
    /\ ticks = 0

\* BucketBossApp.__init__ of src/bucketboss.py
LegacyInit ==
    /\ provider = "S3Provider"
    /\ cache_ttl = DEFAULT_CACHE_TTL
    /\ a_pc = "legacy" /\ a_ops = 0 /\ a_last = NoCommand

\* ls [--sort=key] <prefix>
LegacyLs(p, sort_key, fails) ==
    /\ a_pc = "legacy"
    /\ a_ops < MaxOps
    /\ LET r == LegacyDoLs(cache, p, sort_key, now, remote, fails)
       IN /\ cache' = r.cache
          /\ a_last' = [op |-> "ls", arg |-> p, before |-> cache,
                        at |-> now, called |-> r.called,
                        failed |-> r.failed, dirs |-> <<>>,
                        files |-> <<>>]
    /\ a_ops' = a_ops + 1
    /\ UNCHANGED <<provider, cache_ttl, a_pc, remote, failing, now, ticks>>
    /\ UNCHANGED <<dlVars, walkVars, crawlVars, mainVars, persistVars,
                   pathVars>>

\* put <local> <key>: upload_file, then invalidate_cache_for_key
LegacyPut(key) ==
    /\ a_pc = "legacy"
    /\ a_ops < MaxOps
    /\ remote' = remote \cup {key}
    /\ cache' = Invalidate(cache, key)
    /\ a_last' = [op |-> "put", arg |-> key, before |-> cache, at |-> now,
                  called |-> TRUE, failed |-> FALSE, dirs |-> <<>>,
                  files |-> <<>>]
    /\ a_ops' = a_ops + 1
    /\ UNCHANGED <<provider, cache_ttl, a_pc, failing, now, ticks>>
    /\ UNCHANGED <<dlVars, walkVars, crawlVars, mainVars, persistVars,
                   pathVars>>

\* time passes between two commands
LegacyTick ==
    /\ a_pc = "legacy"
    /\ Tick
    /\ UNCHANGED <<dlVars, walkVars, crawlVars, mainVars, appVars,
                   persistVars, pathVars>>

NextLegacy ==
    \/ \E p \in LsPrefixes, sort_key \in SortKeys, fails \in BOOLEAN :
          LegacyLs(p, sort_key, fails)
    \/ \E k \in PutKeys : LegacyPut(k)
    \/ LegacyTick

\* ===================================== list_objects with limit and token
\* The number of keys the remote store returns in one response when the
\* request names no max-keys (1000 for S3).
ServerPageSize == 2

\* The names a delimiter listing of prefix p returns, in key order.
PageEntries(keys, p) == SortNames(RemoteDirs(keys, p) \cup RemoteFiles(keys, p))

\* One request to the store and the parse of its response
\* (_list_objects_v2, _parse_list_response; list_objects_v2 of boto3): the
\* names from the token on, at most max_keys of them, and the token of the
\* rest when the response is truncated.  A token is the position of the
\* first name not yet returned.
RequestPage(keys, p, max_keys, token) ==
    LET all == PageEntries(keys, p)
        first == IF token = None THEN 1 ELSE token
        size == IF max_keys = None THEN ServerPageSize ELSE max_keys
        last == IF first + size - 1 < Len(all) THEN first + size - 1
                ELSE Len(all)
        names == SubSeq(all, first, last)
    IN [dirs  |-> SelectSeq(names, LAMBDA n : n \in RemoteDirs(keys, p)),
        files |-> FileEntries(
                     SelectSeq(names, LAMBDA n : n \in RemoteFiles(keys, p))),
        token |-> IF last < Len(all) THEN last + 1 ELSE None]

\* the number of requests a complete listing of prefix p takes
RequestsFor(keys, p) ==
    Max(1, (Len(PageEntries(keys, p)) + ServerPageSize - 1)
              \div ServerPageSize)

\* S3XMLProvider.list_objects, "while next_continuation_token", lines
\* 145-160: request number n is the failAt-th of the call when it raises,
\* and the loop breaks with what it has
RECURSIVE XMLPaginate(_, _, _, _, _, _, _)
XMLPaginate(keys, p, token, dirs, files, n, failAt) ==
    IF token = None \/ n = failAt THEN [dirs |-> dirs, files |-> files]
    ELSE LET pg == RequestPage(keys, p, None, token)
         IN XMLPaginate(keys, p, pg.token, dirs \o pg.dirs,
                        files \o pg.files, n + 1, failAt)

\* directories.sort() and files.sort(key=name)
SortListing(dirs, files) ==
    [dirs  |-> SortNames(Range(dirs)),
     files |-> FileEntries(SortNames({files[i].name : i \in 1..Len(files)}))]

\* S3XMLProvider.list_objects(prefix, 'name', limit, next_token); the
\* failAt-th request of the call fails with a URLError (0: none fails)
XMLListObjects(keys, p, limit, next_token, failAt) ==
    IF failAt = 1
    THEN [dirs |-> <<>>, files |-> <<>>, token |-> None, raised |-> FALSE]
    ELSE LET first == RequestPage(keys, p, limit, next_token)
         IN IF limit = None /\ first.token # None
            THEN LET r == XMLPaginate(keys, p, first.token, first.dirs,
                                      first.files, 2, failAt)
                     s == SortListing(r.dirs, r.files)
                 IN [dirs |-> s.dirs, files |-> s.files, token |-> None,
                     raised |-> FALSE]
            ELSE [dirs |-> first.dirs, files |-> first.files,
                  token |-> first.token, raised |-> FALSE]

\* S3Provider.list_objects(prefix, 'name', limit, next_token): one request
\* when a limit is given, the paginator over every page (from the start,
\* whatever next_token is) otherwise; an error is re-raised
S3ListObjects(keys, p, limit, next_token, failAt) ==
    IF limit # None
    THEN IF failAt = 1
         THEN [dirs |-> <<>>, files |-> <<>>, token |-> None,
               raised |-> TRUE]
         ELSE LET pg == RequestPage(keys, p, limit, next_token)
              IN [dirs |-> pg.dirs, files |-> pg.files, token |-> pg.token,
                  raised |-> FALSE]
    ELSE IF failAt \in 1..RequestsFor(keys, p)
         THEN [dirs |-> <<>>, files |-> <<>>, token |-> None,
               raised |-> TRUE]
         ELSE LET r == ProviderList(keys, p)
              IN [dirs |-> r.dirs, files |-> r.files, token |-> None,
                  raised |-> FALSE]

\* BucketBossApp.list_objects(prefix, 'name', limit, next_token), app.py
\* lines 189-209: the result, whether the provider was called, and the
\* cache afterwards
PagedListObjects(kind, c, p, limit, next_token, t, keys, failAt) ==
    IF limit = None /\ next_token = None /\ IsFresh(c, p, t)
    THEN [dirs |-> c[p].dirs, files |-> c[p].files, token |-> None,
          called |-> FALSE, cache |-> c]
    ELSE LET r == IF kind = "S3XMLProvider"
                  THEN XMLListObjects(keys, p, limit, next_token, failAt)
                  ELSE S3ListObjects(keys, p, limit, next_token, failAt)
         IN IF r.raised
            THEN [dirs |-> <<>>, files |-> <<>>, token |-> None,
                  called |-> TRUE, cache |-> c]
            ELSE [dirs |-> r.dirs, files |-> r.files, token |-> r.token,
                  called |-> TRUE,
                  cache |-> IF limit = None
                            THEN StoreRecord(c, p, r.dirs, r.files, t)
                            ELSE c]

PagingTrees == {
    {<<"x">>, <<"y">>, <<"a", "z">>},
    {<<"r">>, <<"a", "x">>, <<"a", "y">>, <<"a", "b", "z">>} }

\* the limits, tokens and failing requests of the calls
Limits == {None, 1, 2}

Tokens == {None, 2, 3}

FailAts == 0..2

PagingWorldInit ==
    /\ remote \in PagingTrees
    /\ failing = {}
    /\ cache = <<>>
    /\ now = 0
    /\ ticks = 0

PagingInit ==
    /\ provider \in Providers
    /\ cache_ttl = DEFAULT_CACHE_TTL
    /\ a_pc = "paging" /\ a_ops = 0 /\ a_last = NoCommand

\* one call of app.list_objects: a page of ls (limit 50 there, with the
\* token of the page before), or a listing without limit and without token
\* by any other command
PagingList(p, limit, next_token, failAt) ==
    /\ a_pc = "paging"
    /\ a_ops < MaxOps
    /\ limit = None => next_token = None
    /\ next_token # None => next_token <= Len(PageEntries(remote, p))
    /\ \E r \in {PagedListObjects(provider, cache, p, limit, next_token, now,
                                  remote, failAt)} :
          /\ cache' = r.cache
          /\ a_last' = [op |-> "ls", arg |-> p, before |-> cache,
                        at |-> now, called |-> r.called,
                        failed |-> r.called /\ failAt # 0,
                        dirs |-> r.dirs, files |-> r.files,
                        limit |-> limit, next_token |-> next_token,
                        token |-> r.token]
    /\ a_ops' = a_ops + 1
    /\ UNCHANGED <<provider, cache_ttl, a_pc, remote, failing, now, ticks>>
    /\ UNCHANGED <<dlVars, walkVars, crawlVars, mainVars, persistVars,
                   pathVars>>

NextPaging ==
    \E p \in LsPrefixes, limit \in Limits, next_token \in Tokens,
       failAt \in FailAts : PagingList(p, limit, next_token, failAt)

SessionWorldInit ==
    /\ remote \in CrawlTrees
    /\ failing = {}
    /\ cache = <<>>
    /\ now = 0
    /\ ticks = 0

\* the scenarios of one thread are not running
SoloIdle == AppIdle /\ PersistIdle /\ PathIdle

\* ======================================================= specifications
\* one call of parallel_download
InitDownload == DlInit /\ WorldIdle /\ WalkIdle /\ CrawlIdle /\ MainIdle /\ SoloIdle

SpecDownload == InitDownload /\ [][NextDownload]_vars

\* walks of one bucket by one application, one per worker count
InitWalk == DlIdle /\ WorldInit /\ WalkInit /\ CrawlIdle /\ MainIdle /\ SoloIdle

SpecWalk == InitWalk /\ [][NextWalk]_vars

\* the same walks when no thread stops for ever and every list call
\* returns or raises
SpecWalkFair == InitWalk /\ [][NextWalk]_vars /\ WF_vars(WalkStep)

\* the shell with its background crawl: ls, put, stats and exit are entered
\* while the crawl thread and its pool run
InitCrawl == DlIdle /\ ShellWorldInit /\ WalkIdle /\ CrawlInit /\ MainInit /\ SoloIdle

SpecCrawl == InitCrawl /\ [][NextCrawl]_vars

\* one shell session without background crawl
InitSession ==
    DlIdle /\ SessionWorldInit /\ WalkIdle /\ CrawlIdle /\ MainIdle /\ AppInit
      /\ PersistIdle /\ PathIdle

SpecSession == InitSession /\ [][NextSession]_vars

\* the end of one process and the start of the next
InitPersist ==
    DlIdle /\ PersistInit /\ WalkIdle /\ CrawlIdle /\ MainIdle /\ AppIdle
      /\ PathIdle

SpecPersist == InitPersist /\ [][NextPersist]_vars

\* one call of resolve_path
InitPath ==
    DlIdle /\ WorldIdle /\ WalkIdle /\ CrawlIdle /\ MainIdle /\ AppIdle
      /\ PersistIdle /\ PathInit

SpecPath == InitPath /\ [][NextPath]_vars

\* one session of the single-file program
InitLegacy ==
    DlIdle /\ LegacyWorldInit /\ WalkIdle /\ CrawlIdle /\ MainIdle
      /\ LegacyInit /\ PersistIdle /\ PathIdle

SpecLegacy == InitLegacy /\ [][NextLegacy]_vars

\* one session whose commands list with and without limit
InitPaging ==
    DlIdle /\ PagingWorldInit /\ WalkIdle /\ CrawlIdle /\ MainIdle
      /\ PagingInit /\ PersistIdle /\ PathIdle

SpecPaging == InitPaging /\ [][NextPaging]_vars

\* any of the three
Init == InitDownload \/ InitWalk \/ InitCrawl

Next == NextDownload \/ NextWalk \/ NextCrawl

Spec == Init /\ [][Next]_vars

\* ================================================================ claims
KeysOf(pairs) == {pairs[i][1] : i \in 1..Len(pairs)}

\* C1: parallel_download never raises, and once it has returned every
\* non-skipped item whose download did not raise is in downloaded and every
\* item whose download raised is in errors under its own key, and under no
\* other item's key.
C1_FailureIsolation ==
    /\ dl_pc # "raised"
    /\ dl_pc = "returned" =>
         /\ \A i \in 1..Len(to_download) :
              LET key == to_download[i].key
              IN IF key \in dl_raises
                 THEN key \in KeysOf(errors)
                 ELSE key \in KeysOf(downloaded)
         /\ KeysOf(errors) \subseteq dl_raises

C1_Witness ==
    /\ dl_pc = "returned"
    /\ dl_workers > 1
    /\ Len(to_download) = 3
    /\ to_download[2].key \in dl_raises
    /\ Len(downloaded) = 2
    /\ Len(errors) = 1

\* ------------------------------------------------------ walk: vocabulary
\* level of a prefix or of a key's directory below the root of the walk
Level(p) == Len(p) - Len(w_root)

\* a listing that failed at or above p, inside the walk
UnderFailed(p, maxLevel) ==
    \E f \in failing : /\ IsPrefixOf(w_root, f)
                       /\ IsPrefixOf(f, p)
                       /\ Level(f) <= maxLevel

\* the prefixes at levels 0..maxLevel whose ancestors inside the walk all
\* list successfully
ReachablePrefixes(maxLevel) ==
    {p \in PrefixesOf(remote) \cup {w_root} :
        /\ IsPrefixOf(w_root, p)
        /\ Level(p) <= maxLevel
        /\ (p # w_root => ~UnderFailed(Front(p), maxLevel))}

\* the keys of the files of the prefixes at levels 0..maxLevel that are not
\* under a failed prefix
ExpectedKeys(maxLevel) ==
    {k \in remote : /\ IsPrefixOf(w_root, k)
                    /\ Level(Front(k)) <= maxLevel
                    /\ ~UnderFailed(Front(k), maxLevel)}

\* the deepest level the code lists: the root has depth 1 and a prefix of
\* depth d is expanded when d < max_depth
LastLevel == Max(w_max_depth, 1) - 1

RECURSIVE SetSum(_)
SetSum(S) ==
    IF S = {} THEN 0
    ELSE LET k == CHOOSE x \in S : TRUE
         IN FileSize(Last(k)) + SetSum(S \ {k})

FileKeys(fs) == {fs[i][1] : i \in 1..Len(fs)}

\* C3: a failed listing never aborts a walk: the walk does not raise, and
\* what it returns is every file of every prefix within the depth bound
\* that is not under the failed prefix, and nothing of the failed subtree.
C3_FailedListingIsolated ==
    /\ w_pc # "raised"
    /\ w_pc = "returned" => FileKeys(all_files) = ExpectedKeys(LastLevel)

C3_Witness ==
    /\ w_pc = "returned"
    /\ \E f \in failing :
          /\ f # w_root
          /\ \E l \in w_listed : l[1] = f
          /\ \E k \in remote : IsPrefixOf(f, k)
          /\ \E k \in FileKeys(all_files) : ~IsPrefixOf(f, k) /\ Len(k) > 1

\* C7: without listing failures every worker count gives the same set of
\* keys and the same total_size: the files of every prefix within the depth
\* bound, each once.
C7_SameFilesForEveryWorkerCount ==
    failing = {} =>
        /\ \A r \in w_runs :
             /\ r.files = ExpectedKeys(LastLevel)
             /\ r.nfiles = Cardinality(r.files)
             /\ r.size = SetSum(r.files)
        /\ \A r1, r2 \in w_runs :
             r1.files = r2.files /\ r1.size = r2.size

C7_Witness ==
    /\ failing = {}
    /\ \E r1, r2 \in w_runs :
          /\ r1.workers = 1
          /\ r2.workers > 1
          /\ Cardinality(r1.files) >= 3
          /\ r1.size = 130

\* C8: the walk with one worker and the walk with several workers return
\* the same all_files, the same total_size and the same set of
\* (full_prefix, depth) entries in all_dirs.
C8_SameResultForEveryWorkerCount ==
    \A r1, r2 \in w_runs :
        /\ r1.files = r2.files
        /\ r1.size = r2.size
        /\ r1.dirs = r2.dirs

\* C9 as stated: the prefixes listed are exactly those at levels
\* 0..max_depth reachable through successful listings.
C9_ListedLevelsUpToMaxDepth ==
    w_pc = "returned" =>
        {l[1] : l \in w_listed} = ReachablePrefixes(w_max_depth)

\* C9 amended: the root has depth 1 and the subdirectories of a prefix at
\* level d are expanded exactly when d + 1 < max_depth: the prefixes listed
\* are exactly those at levels 0..max(max_depth, 1) - 1 reachable through
\* successful listings, each with depth level + 1, and no deeper prefix is
\* ever listed.
C9_ListedLevelsBelowMaxDepth ==
    /\ \A l \in w_listed : Level(l[1]) <= LastLevel /\ l[2] = Level(l[1]) + 1
    /\ w_pc = "returned" =>
           {l[1] : l \in w_listed} = ReachablePrefixes(LastLevel)

C9_Witness ==
    /\ w_pc = "returned"
    /\ w_max_depth = 2
    /\ \E l \in w_listed : l[2] = 2
    /\ \E p \in PrefixesOf(remote) :
          /\ IsPrefixOf(w_root, p)
          /\ Level(p) = 2
          /\ p \notin {l[1] : l \in w_listed}

\* C2: strict level barrier, in parallel_walk and in background_cache_crawl:
\* whenever a list call of a deeper level has been submitted to the pool,
\* every list call of the shallower levels has resolved.
C2_LevelBarrier ==
    /\ \A i, j \in 1..Len(futures) :
          futures[j].depth > futures[i].depth => futures[i].state = "done"
    /\ \A i, j \in 1..Len(c_futures) :
          c_futures[j].depth > c_futures[i].depth
              => c_futures[i].state = "done"

C2_Witness ==
    \E i, j \in 1..Len(futures) :
        /\ futures[i].prefix \in failing
        /\ futures[i].state = "done"
        /\ futures[j].depth > futures[i].depth
        /\ futures[j].state = "queued"
        /\ Cardinality({k \in 1..Len(futures) :
                           futures[k].depth = futures[i].depth}) >= 2

\* C4: after a put that uploaded key k, the cache holds no record of k's
\* parent prefix that was listed before the upload, and none is installed
\* afterwards: a record of the parent, if there is one, lists k.
C4_NoStaleParentAfterPut ==
    \A k \in put_done :
        LET p == ParentPrefix(k)
        IN p \in DOMAIN cache =>
              Last(k) \in {cache[p].files[i].name :
                              i \in 1..Len(cache[p].files)}

\* C5: the record of a prefix is absent or is exactly the triple of one
\* completed listing call, the last writer's: its directories and files are
\* the answer of one remote listing of that prefix.
C5_RecordIsOneListing ==
    \A p \in DOMAIN cache :
        /\ p \in DOMAIN last_write
        /\ cache[p] = last_write[p]
        /\ <<p, cache[p].dirs, cache[p].files>> \in listings

C5_Witness ==
    \E p \in DOMAIN cache :
        /\ Cardinality({l \in listings : l[1] = p}) >= 2
        /\ \E i \in 1..Len(c_futures) :
              /\ c_futures[i].prefix = p
              /\ i \in c_yielded
              /\ ~c_futures[i].raised

\* C6: an iteration over the whole cache (exit's _save_cache, stats) that
\* runs while the crawl inserts records completes without error and
\* observes the cache as it was at one moment.
C6_IterationConsistent ==
    /\ it_status # "error"
    /\ it_status = "done" => it_observed = it_start

\* C10: with W > 1 workers at most W remote calls of a parallel_walk or of a
\* parallel_download are outstanding at any moment.
C10_OutstandingCallsBounded ==
    /\ Cardinality(Running(futures)) <= w_workers
    /\ Cardinality(dl_running) <= dl_workers

C10_Witness ==
    /\ w_workers > 1
    /\ Cardinality(Running(futures)) = w_workers
    /\ Queued(futures) # {}

\* ------------------------------------------- parallel_download: outcome
\* number of entries of a result list recorded under key
Occurrences(pairs, key) ==
    Cardinality({i \in 1..Len(pairs) : pairs[i][1] = key})

InputKeys == {file_keys[i].key : i \in 1..Len(file_keys)}

\* C11: once parallel_download has returned, every input item is recorded
\* exactly once over downloaded, skipped and errors together, the three lists
\* hold input keys only, and each list holds only keys that belong to it:
\* skipped the items over max_size, errors the items whose download raised,
\* downloaded the others; for every worker count and failure pattern.
C11_OutcomeIsPartition ==
    dl_pc = "returned" =>
      /\ \A i \in 1..Len(file_keys) :
           LET key == file_keys[i].key
               over == max_size # None /\ file_keys[i].size > max_size
           IN /\ Occurrences(downloaded, key) + Occurrences(skipped, key)
                   + Occurrences(errors, key) = 1
              /\ key \in KeysOf(skipped) <=> over
              /\ key \in KeysOf(errors) <=> ~over /\ key \in dl_raises
              /\ key \in KeysOf(downloaded) <=> ~over /\ key \notin dl_raises
      /\ KeysOf(downloaded) \cup KeysOf(skipped) \cup KeysOf(errors)
           = InputKeys

C11_Witness ==
    /\ dl_pc = "returned"
    /\ dl_workers > 1
    /\ Len(file_keys) = 3
    /\ Len(downloaded) = 1
    /\ Len(skipped) = 1
    /\ Len(errors) = 1

\* C12: an item with size > max_size is recorded in skipped only, no
\* download call is made for its key and every local directory created is
\* the parent of the local path of an item that passed the filter; an item
\* with size <= max_size (or any item when max_size is None) is never
\* skipped.
C12_OversizeOnlySkipped ==
    /\ \A i \in 1..Len(file_keys) :
         LET key == file_keys[i].key
         IN IF max_size # None /\ file_keys[i].size > max_size
            THEN /\ key \notin dl_calls
                 /\ key \notin KeysOf(downloaded)
                 /\ key \notin KeysOf(errors)
                 /\ key \notin {to_download[j].key : j \in 1..Len(to_download)}
                 /\ dl_pc # "start" => key \in KeysOf(skipped)
            ELSE key \notin KeysOf(skipped)
    /\ local_dirs \subseteq
         {LocalParent(LocalPath(file_keys[i].key, flat)) :
            i \in {j \in 1..Len(file_keys) :
                     max_size = None \/ file_keys[j].size <= max_size}}

C12_Witness ==
    /\ dl_pc = "returned"
    /\ dl_workers > 1
    /\ ~flat
    /\ max_size = 1
    /\ Len(file_keys) = 3
    /\ file_keys[2].size = 2
    /\ file_keys[1].size = 1
    /\ file_keys[3].size = 1
    /\ KeysOf(skipped) = {file_keys[2].key}
    /\ dl_calls = {file_keys[1].key, file_keys[3].key}
    /\ LocalParent(file_keys[2].key) \notin local_dirs

\* ------------------------------------------------------- session: cache
\* age of the record of p in cache c at time t
Age(c, p, t) == t - c[p].ts

\* C13: an exhaustive listing of a prefix is answered from the cache exactly
\* when the cache holds a record of the prefix with now - fetched_at < TTL:
\* then no remote call is made and the record's directories and files are
\* returned; otherwise (no record, or now - fetched_at >= TTL) a remote
\* listing is made.
C13_ServedExactlyWhileFresh ==
    a_last.op = "ls" =>
      LET p == a_last.arg
          c == a_last.before
          fresh == p \in DOMAIN c /\ Age(c, p, a_last.at) < 6 * 3600
      IN /\ fresh => /\ ~a_last.called
                     /\ a_last.dirs = c[p].dirs
                     /\ a_last.files = c[p].files
                     /\ cache = c
         /\ ~fresh => a_last.called

\* a record exactly TTL old is not served
C13_Witness ==
    /\ a_last.op = "ls"
    /\ a_last.arg \in DOMAIN a_last.before
    /\ Age(a_last.before, a_last.arg, a_last.at) = 6 * 3600
    /\ a_last.called
    /\ ~a_last.failed
    /\ cache[a_last.arg].ts = a_last.at

\* C14: after put has uploaded key, the cache is the cache before the command
\* without the record of key's parent prefix (the root prefix for a key
\* without '/'): no other record is removed, added or changed, the records
\* of the parent's ancestors included, and when the parent had no record
\* the cache is unchanged.
C14_InvalidateRemovesParentOnly ==
    (a_last.op = "put" /\ a_last.called) =>
      LET parent == SubSeq(a_last.arg, 1, Len(a_last.arg) - 1)
          c == a_last.before
      IN /\ DOMAIN cache = DOMAIN c \ {parent}
         /\ \A q \in DOMAIN cache : cache[q] = c[q]
         /\ parent \notin DOMAIN c => cache = c

\* put a/g while '' and a/ both have a fresh record: only a/ is dropped
C14_Witness ==
    /\ a_last.op = "put"
    /\ a_last.called
    /\ a_last.arg = <<"a", "g">>
    /\ DOMAIN a_last.before = {<<>>, <<"a">>}
    /\ IsFresh(a_last.before, <<>>, a_last.at)
    /\ DOMAIN cache = {<<>>}
    /\ cache[<<>>] = a_last.before[<<>>]

\* C15: freshness is decided by the configured cache_ttl: a listing is
\* answered from the cache exactly when the record's age is below cache_ttl,
\* so that with cache_ttl = 0 every listing makes a remote call.
C15_ConfiguredTTLDecides ==
    a_last.op = "ls" =>
      LET p == a_last.arg
          c == a_last.before
      IN ~a_last.called <=>
           (p \in DOMAIN c /\ Age(c, p, a_last.at) < cache_ttl)

\* C16: a listing whose remote request failed returns an empty result and
\* leaves the cache exactly as it was (no record is created or replaced by
\* it), whichever provider is in use.
C16_FailedListingNotStored ==
    (a_last.op = "ls" /\ a_last.failed) =>
      /\ a_last.dirs = <<>>
      /\ a_last.files = <<>>
      /\ cache = a_last.before

\* ------------------------------------------------------- walk: failures
\* the prefixes whose listing failed during the walk
FailedListings == {l[1] : l \in {l \in w_listed : l[1] \in failing}}

\* C17: the result a walk returns names every prefix whose listing failed
\* during the walk, so that the caller can tell a failed branch from an
\* empty directory.
C17_FailuresReported ==
    (w_pc = "returned" /\ FailedListings # {}) =>
      /\ "errors" \in DOMAIN WalkResult
      /\ FailedListings \subseteq
           {WalkResult.errors[i][1] : i \in 1..Len(WalkResult.errors)}

\* ----------------------------------------------------------- persistence
\* C18: a cache written by _save_cache and read back by _load_cache is the
\* cache that was saved: the same prefixes, and for each the same
\* directories, the same files with the same last_modified, and the same
\* fetched_at.
C18_SaveLoadRoundTrip ==
    (p_pc = "started" /\ p_saved.written) =>
      /\ DOMAIN cache = DOMAIN p_saved.cache
      /\ \A p \in DOMAIN cache :
           /\ cache[p].dirs = p_saved.cache[p].dirs
           /\ cache[p].files = p_saved.cache[p].files
           /\ cache[p].ts = p_saved.cache[p].ts

C18_Witness ==
    /\ p_pc = "started"
    /\ p_saved.written
    /\ DOMAIN cache = {<<>>, <<"a">>}
    /\ cache[<<>>].ts # cache[<<"a">>].ts
    /\ Len(cache[<<>>].files) = 1
    /\ cache[<<>>].files[1].last_modified =
         [type |-> "datetime", day |-> 2, tz |-> "+00:00"]
    /\ disk.member[<<>>].items[2].items[1].last_modified.type = "str"
    /\ Len(cache[<<"a">>].files) = 1
    /\ cache[<<"a">>].files[1].last_modified.tz = ""

\* C19: when the process starts on a cache file that is missing, is not
\* JSON or holds a malformed entry, _load_cache ends without an exception
\* and with an empty cache.
C19_BadFileGivesEmptyCache ==
    (p_pc = "started" /\ ~p_saved.written) => DOMAIN cache = {}

\* ---------------------------------------------------------- resolve_path
\* the path made of k '..' pieces followed by the name n
DotDots(k, n) == Join([i \in 1..k + 1 |-> IF i <= k THEN <<".", ".">> ELSE n])

\* the pieces of a current prefix
PrefixParts(cur) == IF cur = <<>> THEN <<>> ELSE Split(RStrip(cur))

\* C20: resolve_path returns for every input, and a '..' removes the last
\* retained piece when there is one and does nothing otherwise: k '..'
\* followed by a name, resolved from a prefix of d pieces, gives the first
\* max(d - k, 0) pieces of the prefix followed by the name; in particular
\* resolve("a/", "../../x") = "x", resolve("a/b/", "../c") = "a/c" and
\* resolve("a/", "..", dir) = "".
C20_DotDotNeverFails ==
    r_pc = "returned" =>
      /\ \A k \in 0..MaxSegments - 1, n \in {<<"x">>, <<"c">>} :
           (input_path = DotDots(k, n) /\ ~is_directory) =>
             LET parts == PrefixParts(current_prefix)
                 keep == Max(Len(parts) - k, 0)
             IN r_result = Join(SubSeq(parts, 1, keep) \o <<n>>)
      /\ (/\ current_prefix = <<"a", "/">>
          /\ input_path = <<".", ".", "/", ".", ".", "/", "x">>
          /\ ~is_directory) => r_result = <<"x">>
      /\ (/\ current_prefix = <<"a", "/", "b", "/">>
          /\ input_path = <<".", ".", "/", "c">>
          /\ ~is_directory) => r_result = <<"a", "/", "c">>
      /\ (/\ current_prefix = <<"a", "/">>
          /\ input_path = <<".", ".">>
          /\ is_directory) => r_result = <<>>

\* '..' twice from a prefix of one piece
C20_Witness ==
    /\ r_pc = "returned"
    /\ current_prefix = <<"a", "/">>
    /\ input_path = <<".", ".", "/", ".", ".", "/", "x">>
    /\ ~is_directory
    /\ r_result = <<"x">>

\* a path in normal form: no empty piece, no '.' and no '..'
NormalPieces(path) ==
    \A i \in 1..Len(Split(path)) :
        Split(path)[i] \notin {<<>>, <<".">>, <<".", ".">>}

\* a normalized directory prefix: '' or a normal path followed by one '/'
IsNormalPrefix(p) ==
    p = <<>> \/ (EndsWithSlash(p) /\ NormalPieces(Front(p)))

\* C21: for a normalized directory prefix p, resolve_path(p, ".", True)
\* returns p; and when the prefix it was called with is itself the result
\* of such a call, the result is that prefix again (idempotence).
C21_DotIsIdentity ==
    (/\ r_pc = "returned"
     /\ input_path = <<".">>
     /\ is_directory
     /\ IsNormalPrefix(current_prefix)) =>
      /\ r_result = current_prefix
      /\ ResolvePathOf(r_provider, r_result, <<".">>, TRUE) = r_result

\* the second of two calls with ".": the prefix is the result of the first
C21_Witness ==
    /\ r_pc = "returned"
    /\ r_calls = 2
    /\ r_provider = "S3Provider"
    /\ input_path = <<".">>
    /\ is_directory
    /\ current_prefix = <<"a", "/", "b", "/">>
    /\ r_result = <<"a", "/", "b", "/">>

\* C22: what resolve_path returns is in normal form: no empty piece, no '.'
\* and no '..', no leading '/'; with is_directory it is '' or a normal path
\* followed by exactly one '/', without is_directory it is '' or a normal
\* path that does not end in '/'.  The shell's current prefix, set by cd
\* from such results, is always '' or a normal path followed by one '/'.
C22_ResultInNormalForm ==
    /\ r_pc = "returned" =>
         /\ ~StartsWithSlash(r_result)
         /\ is_directory => IsNormalPrefix(r_result)
         /\ ~is_directory =>
              (r_result = <<>> \/
                 (NormalPieces(r_result) /\ ~EndsWithSlash(r_result)))
    /\ IsNormalPrefix(current_prefix)

\* "x//c" entered in a/, then a second cd from the result
C22_Witness ==
    /\ r_pc = "returned"
    /\ r_calls = 2
    /\ current_prefix = <<"a", "/", "x", "/", "c", "/">>
    /\ input_path = <<".", ".">>
    /\ r_result = <<"a", "/", "x", "/">>

\* C23: whichever provider class is in use, resolve_path returns what the
\* other two return for the same current prefix, input path and
\* is_directory.
C23_SameInEveryBackend ==
    r_pc = "returned" =>
      /\ r_result = ResolvePath(current_prefix, input_path, is_directory)
      /\ r_result = XMLResolvePath(current_prefix, input_path, is_directory)
      /\ r_result = MultiResolvePath(current_prefix, input_path, is_directory)

C23_Witness ==
    /\ r_pc = "returned"
    /\ r_provider = "MultiBucketProvider"
    /\ current_prefix = <<"a", "/", "b", "/">>
    /\ input_path = <<".", ".", "/", "c">>
    /\ ~is_directory
    /\ r_result = <<"a", "/", "c">>

\* C24: when parallel_download returns, the sets of keys in downloaded, in
\* skipped and in errors are the sets the sequential branch (workers <= 1)
\* returns for the same items, max_size and download outcomes, whatever the
\* worker count and the order in which the futures completed.
C24_SamePartitionAsSequential ==
    dl_pc = "returned" =>
      LET seq == SequentialRun(ToDownload(file_keys, max_size), flat,
                               dl_raises, <<>>, <<>>)
      IN /\ KeysOf(downloaded) = KeysOf(seq.downloaded)
         /\ KeysOf(errors) = KeysOf(seq.errors)
         /\ KeysOf(skipped) = KeysOf(Skipped(file_keys, max_size))

\* A pool of two workers returned the items in another order than the
\* sequential loop does, with successes and failures.
C24_Witness ==
    /\ dl_pc = "returned"
    /\ dl_workers > 1
    /\ Len(downloaded) >= 2
    /\ errors # <<>>
    /\ downloaded # SequentialRun(to_download, flat, dl_raises,
                                  <<>>, <<>>).downloaded

\* C25: the progress callback fires exactly once for each item that passed
\* the size filter, on success and on failure alike, in the order the items
\* complete: a step records an item's result exactly when it reports
\* progress, the reported completed_count is one more than the number of
\* calls made before, total_count is always the number of non-skipped
\* items, current_key is the key of the item whose result the step just
\* recorded, and when parallel_download returns the callback has fired
\* total_count times.
C25_ProgressOncePerItem ==
    [][/\ (dl_progress' # dl_progress) <=>
             (downloaded' # downloaded \/ errors' # errors)
       /\ (dl_yielded' # dl_yielded \/ (dl_pc = "seq" /\ dl_next' # dl_next))
             => dl_progress' # dl_progress
       /\ dl_progress' # dl_progress =>
            /\ Len(dl_progress') = Len(dl_progress) + 1
            /\ Front(dl_progress') = dl_progress
            /\ Last(dl_progress')[1] = Len(dl_progress) + 1
            /\ Last(dl_progress')[2] = Len(to_download)
            /\ Last(dl_progress')[2] = Len(file_keys) - Len(skipped)
            /\ \/ /\ Len(downloaded') = Len(downloaded) + 1
                  /\ Front(downloaded') = downloaded
                  /\ errors' = errors
                  /\ Last(downloaded')[1] = Last(dl_progress')[3]
               \/ /\ Len(errors') = Len(errors) + 1
                  /\ Front(errors') = errors
                  /\ downloaded' = downloaded
                  /\ Last(errors')[1] = Last(dl_progress')[3]
            /\ \A j \in 1..Len(dl_progress) :
                  dl_progress[j][3] # Last(dl_progress')[3]
       /\ (dl_pc # "returned" /\ dl_pc' = "returned") =>
            /\ Len(dl_progress) = Len(to_download')
            /\ \A j \in 1..Len(dl_progress) : dl_progress[j][1] = j
      ]_vars

\* Two workers: the second submitted item completed first and failed, the
\* first then succeeded, and the callback saw 1 then 2 of 2.
C25_Witness ==
    /\ dl_pc = "returned"
    /\ dl_workers > 1
    /\ Len(to_download) = 2
    /\ skipped # <<>>
    /\ dl_progress = <<<<1, 2, to_download[2].key>>,
                       <<2, 2, to_download[1].key>>>>
    /\ KeysOf(errors) = {to_download[2].key}

\* C26: in every step of the crawl's scan of a level, a prefix whose cache
\* record is fresh gets no remote list call (no future is submitted) and,
\* when its depth is below max_depth, each subdirectory of the stored
\* record is queued for the next level; a prefix without a fresh record
\* gets exactly one remote call.  Remote calls are submitted by no other
\* step, and when the crawl collects a call that returned, the cache holds
\* the returned listing under that prefix.
C26_CrawlUsesFreshRecords ==
    [][/\ (c_pc = "scan" /\ c_idx' # c_idx) =>
            LET prefix == c_level[c_idx][1]
                depth == c_level[c_idx][2]
            IN IF prefix \in DOMAIN cache
                    /\ now - cache[prefix].ts < CACHE_TTL_SECONDS
               THEN /\ c_futures' = c_futures
                    /\ c_next_level' = c_next_level \o
                         (IF depth < c_max_depth
                          THEN [i \in 1..Len(cache[prefix].dirs) |->
                                  <<prefix \o <<cache[prefix].dirs[i]>>,
                                    depth + 1>>]
                          ELSE <<>>)
               ELSE /\ Len(c_futures') = Len(c_futures) + 1
                    /\ Front(c_futures') = c_futures
                    /\ Cardinality({i \in 1..Len(c_futures') :
                                      c_futures'[i].prefix = prefix}) = 1
       /\ Len(c_futures') # Len(c_futures) => c_pc = "scan"
       /\ \A i \in c_yielded' \ c_yielded :
            ~c_futures[i].raised =>
               /\ c_futures[i].prefix \in DOMAIN cache'
               /\ cache'[c_futures[i].prefix].dirs = c_futures[i].dirs
               /\ cache'[c_futures[i].prefix].files = c_futures[i].files
               /\ <<c_futures[i].prefix, c_futures[i].dirs,
                    c_futures[i].files>> \in listings
      ]_vars

\* The shell's ls stored the root listing before the crawl scanned it: the
\* crawl made no call for the root, still went down into its
\* subdirectories and stored their listings.
C26_Witness ==
    /\ c_pc = "finished"
    /\ c_max_depth >= 2
    /\ \A i \in 1..Len(c_futures) : c_futures[i].prefix # <<>>
    /\ \E i \in 1..Len(c_futures) :
          /\ Len(c_futures[i].prefix) = 1
          /\ ~c_futures[i].raised
          /\ c_futures[i].prefix \in DOMAIN cache
    /\ crawl_status.cached_prefixes >= 1

\* C27: a cache record is never changed once stored.  After any command, a
\* prefix that had a record before the command and has one after it has
\* the same directories and files in the same order, unless the command
\* was a listing of that prefix that called the provider and stored what it
\* returned (the record was replaced as a whole).
C27_RecordsNeverMutated ==
    \A p \in DOMAIN cache \cap DOMAIN a_last.before :
       cache[p] # a_last.before[p] =>
          /\ a_last.op = "ls"
          /\ a_last.arg = p
          /\ a_last.called
          /\ ~a_last.failed

\* C28: every record app.list_objects has written holds the complete
\* listing of its prefix (every directory and every file the store has
\* under it), and a call with a limit calls the provider and leaves the
\* cache as it was.
C28_RecordsAreComplete ==
    /\ \A p \in DOMAIN cache :
          /\ Range(cache[p].dirs) = RemoteDirs(remote, p)
          /\ {cache[p].files[i].name : i \in 1..Len(cache[p].files)}
                = RemoteFiles(remote, p)
    /\ (a_last.op = "ls" /\ a_last.limit # None) =>
          a_last.called /\ cache = a_last.before

\* --------------------------------------------------- walk: termination
\* the walk is running: it was called and has not returned
WalkRunning == w_pc \in {"seq", "submit", "collect", "done", "raised"}

\* C29: every walk that is called returns, whatever the tree, the failing
\* listings and max_depth, and it never works on a level beyond
\* max(1, max_depth): no prefix is listed, queued or entered at a greater
\* depth.
C29_WalkTerminates ==
    /\ [](/\ \A l \in w_listed : l[2] <= Max(1, w_max_depth)
          /\ \A i \in 1..Len(current_level) :
                current_level[i][2] <= Max(1, w_max_depth)
          /\ \A i \in 1..Len(next_level) :
                next_level[i][2] <= Max(1, w_max_depth)
          /\ Len(w_stack) <= Max(1, w_max_depth))
    /\ (WalkRunning ~> w_pc = "returned")

\* Two workers walked a tree deeper than max_depth with a failing listing:
\* the walk returned after its last level, leaving a directory unlisted.
C29_Witness ==
    /\ w_pc = "returned"
    /\ w_workers > 1
    /\ w_max_depth >= 2
    /\ \E l \in w_listed : l[2] = w_max_depth
    /\ \E l \in w_listed : l[1] \in failing
    /\ \E i \in 1..Len(all_dirs) :
          \A l \in w_listed : l[1] # all_dirs[i][1]

\* ------------------------------------------------------- crawl: status
\* C30: crawl_status.status goes pending -> loading -> complete or error
\* and stays there; depth never decreases and is at most max_depth;
\* cached_prefixes never decreases and grows by one exactly in the steps
\* where the crawl stores a record in the cache (and in no other step), so
\* that it is the number of records the crawl has written.
C30_CrawlStatusMonotone ==
    /\ [](/\ crawl_status.status \in {"pending", "loading", "complete",
                                     "error"}
          /\ crawl_status.depth <= c_max_depth
          /\ crawl_status.status = "pending" =>
                crawl_status.depth = 0 /\ crawl_status.cached_prefixes = 0)
    /\ [][/\ crawl_status'.status # crawl_status.status =>
               <<crawl_status.status, crawl_status'.status>> \in
                  {<<"pending", "loading">>, <<"loading", "complete">>,
                   <<"loading", "error">>}
          /\ crawl_status'.depth >= crawl_status.depth
          /\ crawl_status'.cached_prefixes - crawl_status.cached_prefixes
               = Cardinality({i \in c_yielded' \ c_yielded :
                    /\ ~c_futures[i].raised
                    /\ c_futures[i].prefix \in DOMAIN cache'
                    /\ cache'[c_futures[i].prefix].dirs = c_futures[i].dirs
                    /\ cache'[c_futures[i].prefix].files
                          = c_futures[i].files})
         ]_vars

\* The crawl completed at its full depth after storing two records or
\* more, while one record of the cache came from the shell's ls.
C30_Witness ==
    /\ crawl_status.status = "complete"
    /\ c_max_depth >= 2
    /\ crawl_status.depth = c_max_depth
    /\ crawl_status.cached_prefixes >= 2
    /\ \E i \in 1..Len(c_futures) : c_futures[i].raised
    /\ m_cmds > 0

====
